---- MODULE Spec2Model ----
(***************************************************************************)
(* Input path of the web terminal client: InputManager (key mapper and     *)
(* dual-transport delivery) and DesktopIMEInput (the composition proxy).   *)
(*                                                                         *)
(* A JavaScript string is a sequence of character codes, so that length,   *)
(* lower-casing, trimming and membership in the special-key list are       *)
(* computed as the code computes them.                                     *)
(***************************************************************************)
EXTENDS Integers, Sequences, FiniteSets, TLC

VARIABLES
    session,            \* InputManager.session: NoSession or a session object
    status,             \* Session.status of every session object
    callbacks,          \* InputManager.callbacks is non-null
    useWebSocketInput,  \* InputManager.useWebSocketInput
    lastEscapeTime,     \* InputManager.lastEscapeTime
    now,                \* Date.now()
    imeInput,           \* InputManager.imeInput is non-null (the proxy exists)
    isComposing,        \* DesktopIMEInput.isComposing
    value,              \* DesktopIMEInput.input.value (the proxy buffer)
    focused,            \* document.activeElement === DesktopIMEInput.input
    inflight,           \* fallback requests awaiting their response, per target session
    device,             \* device class of the browser
    listener,           \* InputManager.globalCompositionListener is non-null
    setupTimers,        \* pending setupIMEInput retry timers, per retry count
    liveProxies,        \* DesktopIMEInput instances constructed and not cleaned up
    visible,            \* the proxy input is shown (opacity 0.8) rather than hidden
    hideTimers,         \* pending 100 ms hide timers of the proxy
    blurTimers,         \* pending 50 ms blur timers of the proxy
    staleBlurTimers,    \* pending 50 ms blur timers of proxies cleaned up since
    composingAttr,      \* document.body has data-ime-composing
    focusedAttr,        \* document.body has data-ime-input-focused
    reposTimers,        \* pending 50 ms reposition timers of refreshIMEPosition
    ngrok,              \* the NgrokService object, its child processes and timers
    ev                  \* what the last step did to the outside world

vars == <<session, status, callbacks, useWebSocketInput, lastEscapeTime, now,
          imeInput, isComposing, value, focused, inflight, device, listener,
          setupTimers, liveProxies, visible, hideTimers, blurTimers,
          staleBlurTimers,
          composingAttr, focusedAttr, reposTimers, ngrok, ev>>

----------------------------------------------------------------------------
(* Bounds of the model *)

MaxInflight == 2        \* fallback requests in flight at once
MaxTicks == 1           \* clock advances
TickStep == 500         \* milliseconds per clock advance
ShortStep == 200        \* milliseconds per short clock advance
StartTime == 1000       \* Date.now() at construction
MaxRun == 4             \* Escape presses counted in one rapid run
MaxSetupTimers == 2     \* setup retry timers pending at once
MaxHideTimers == 2      \* hide timers pending at once
MaxBlurTimers == 2      \* blur timers pending at once
MaxSeq == 3             \* send calls of the caller whose promises are followed
MaxReposTimers == 2     \* reposition timers pending at once
MaxChildren == 2        \* ngrok child processes spawned by one service
MaxStops == 2           \* stop() calls of one service that found a process

----------------------------------------------------------------------------
(* Strings *)

EmptyStr == <<>>
S_x == <<120>>
S_enter == <<101, 110, 116, 101, 114>>
S_escape == <<101, 115, 99, 97, 112, 101>>
S_backspace == <<98, 97, 99, 107, 115, 112, 97, 99, 101>>
S_tab == <<116, 97, 98>>
S_shift_tab == <<115, 104, 105, 102, 116, 95, 116, 97, 98>>
S_arrow_up == <<97, 114, 114, 111, 119, 95, 117, 112>>
S_arrow_down == <<97, 114, 114, 111, 119, 95, 100, 111, 119, 110>>
S_arrow_left == <<97, 114, 114, 111, 119, 95, 108, 101, 102, 116>>
S_arrow_right == <<97, 114, 114, 111, 119, 95, 114, 105, 103, 104, 116>>
S_ctrl_enter == <<99, 116, 114, 108, 95, 101, 110, 116, 101, 114>>
S_shift_enter == <<115, 104, 105, 102, 116, 95, 101, 110, 116, 101, 114>>
S_delete == <<100, 101, 108, 101, 116, 101>>

\* the specialKeys array of sendInput
specialKeys ==
    {S_enter, S_escape, S_backspace, S_tab, S_shift_tab, S_arrow_up, S_arrow_down,
     S_arrow_left, S_arrow_right, S_ctrl_enter, S_shift_enter,
     <<112, 97, 103, 101, 95, 117, 112>>,               \* page_up
     <<112, 97, 103, 101, 95, 100, 111, 119, 110>>,     \* page_down
     <<104, 111, 109, 101>>,                            \* home
     <<101, 110, 100>>,                                 \* end
     S_delete,
     <<102, 49>>, <<102, 50>>, <<102, 51>>, <<102, 52>>, <<102, 53>>, <<102, 54>>,
     <<102, 55>>, <<102, 56>>, <<102, 57>>,             \* f1..f9
     <<102, 49, 48>>, <<102, 49, 49>>, <<102, 49, 50>>} \* f10..f12

\* KeyboardEvent.key names
K_Enter == <<69, 110, 116, 101, 114>>
K_Escape == <<69, 115, 99, 97, 112, 101>>
K_Backspace == <<66, 97, 99, 107, 115, 112, 97, 99, 101>>
K_Tab == <<84, 97, 98>>
K_Delete == <<68, 101, 108, 101, 116, 101>>
K_ArrowUp == <<65, 114, 114, 111, 119, 85, 112>>
K_ArrowDown == <<65, 114, 114, 111, 119, 68, 111, 119, 110>>
K_ArrowLeft == <<65, 114, 114, 111, 119, 76, 101, 102, 116>>
K_ArrowRight == <<65, 114, 114, 111, 119, 82, 105, 103, 104, 116>>
K_F5 == <<70, 53>>

\* "no input text": the handler returned before choosing one
Ignored == <<-1>>

\* String.prototype.trim() leaves nothing
IsBlank(s) == \A i \in 1..Len(s) : s[i] \in {9, 10, 11, 12, 13, 32}

\* String.prototype.toLowerCase() of one character code
ToLowerCode(c) == IF c >= 65 /\ c <= 90 THEN c + 32 ELSE c

----------------------------------------------------------------------------
(* Environment: sessions, transports, key events *)

Sessions == {"s1", "s2"}
NoSession == "null"

\* response.status values of the fallback request; NetworkError: fetch rejected
NetworkError == 0
FetchOutcomes == {NetworkError, 200, 400, 404, 500}

\* what websocketInputClient.sendInput(input) did
WsReturns == {"accepted", "rejected"}
WsOutcomes == WsReturns \cup {"threw"}

\* URLSearchParams.get('socket_input')
UrlParams == {"null", "true", "false"}

KeyEvent(k, c, a, m, s) ==
    [key |-> k, ctrlKey |-> c, altKey |-> a, metaKey |-> m, shiftKey |-> s]

\* no key event
NoKey == KeyEvent(<<>>, FALSE, FALSE, FALSE, FALSE)

Unmodified(e) == ~e.ctrlKey /\ ~e.altKey /\ ~e.metaKey /\ ~e.shiftKey

\* the keydown events the environment produces
KeyEvents ==
    {KeyEvent(K_Enter, FALSE, FALSE, FALSE, FALSE),
     KeyEvent(K_Escape, FALSE, FALSE, FALSE, FALSE),
     KeyEvent(K_F5, FALSE, FALSE, FALSE, FALSE),
     KeyEvent(S_x, FALSE, FALSE, FALSE, FALSE),
     KeyEvent(<<118>>, TRUE, FALSE, FALSE, FALSE)}

\* keydown events with Ctrl held, no other modifier, and a letter a..z
CtrlLetterEvents == {KeyEvent(<<c>>, TRUE, FALSE, FALSE, FALSE) : c \in 97..122}

\* keydown events for Enter, Tab, the arrows, Backspace and F5 with any modifiers
MapperEvents ==
    {KeyEvent(k, c, a, m, sh) :
        k \in {K_Enter, K_Tab, K_ArrowLeft, K_ArrowRight, K_Backspace, K_F5},
        c \in BOOLEAN, a \in BOOLEAN, m \in BOOLEAN, sh \in BOOLEAN}

\* texts carried by composition, input and paste events
Texts == {EmptyStr, S_x, S_enter}

\* strings other components pass to sendInput / sendInputText
ApiInputs == {S_x, S_enter}

\* control characters passed to sendControlSequence
ControlChars == {<<18>>}

----------------------------------------------------------------------------
(* Observations: what one step did *)

\* The send calls of a caller that keeps the promises they return, numbered in
\* the order they were issued
NoSeq ==
    [n |-> 0,            \* calls issued
     pending |-> {},     \* calls whose promise has not settled
     flying |-> {},      \* calls whose fallback request is in flight
     torn |-> {},        \* of these, those in flight when the session was torn down
     awaited |-> TRUE,   \* every call was issued with no earlier promise pending
     done |-> <<>>,      \* calls in the order a transport finished with them
     refreshes |-> 0,    \* requestUpdate() calls made for the answers to them
     connFailed |-> FALSE] \* the latest connect() of the persistent channel failed

NoEv ==
    [op |-> "init",
     arg |-> <<>>,        \* text of the event or call handled
     key |-> NoKey,       \* key event handled
     allowed |-> TRUE,    \* isIMEAllowedKey(e), where the handler read it
     since |-> -1,        \* timeSinceLastEscape, where the handler computed it
     capture |-> <<>>,    \* getKeyboardCaptureActive() results read
     setup |-> "none",    \* how the setup of the proxy the step made ended
     retry |-> 0,         \* retryCount of that setupIMEInput call
     seq |-> NoSeq,       \* the caller's send calls so far
     delayed |-> 0,       \* delayed repositions made by a timer callback
     req |-> 0,           \* the caller's call whose fallback request was handled
     wasTorn |-> FALSE,   \* that request was in flight at a teardown
     run |-> [n |-> 0, notes |-> 0, at |-> 0],
                          \* the run of rapid Escape presses the step belongs to:
                          \* presses, notifications, time of the last press
     target |-> "none",   \* target of the paste event handled
     emit |-> <<>>,       \* proxy callbacks invoked: onTextInput / onSpecialKey
     calls |-> <<>>,      \* sendInputInternal calls started
     settled |-> <<>>,    \* promises of send calls settled
     resp |-> -1,         \* outcome of the fallback request handled
     sid |-> NoSession,   \* session the handled fallback request was sent for
     refresh |-> 0,       \* callbacks.requestUpdate() calls
     prevented |-> 0,     \* preventDefault() calls
     toggles |-> <<>>,    \* capture-toggled notifications dispatched
     repos |-> 0,         \* immediate imeInput.refreshPosition() calls
     conn |-> "none"]     \* websocketInputClient.connect(): called, opened, failed

Op(name) == [NoEv EXCEPT !.op = name, !.seq = ev.seq]

InflightCount == inflight["s1"] + inflight["s2"]

----------------------------------------------------------------------------
(* InputManager: key mapper *)

DOUBLE_ESCAPE_THRESHOLD == 500

\* isCopyPasteShortcut(e): platform copy/paste combinations
isCopyPasteShortcut(e) ==
    /\ e.ctrlKey \/ e.metaKey
    /\ ~e.altKey
    /\ Len(e.key) = 1
    /\ ToLowerCode(e.key[1]) \in {99, 118}

\* the two early returns that consult the proxy
MutBlockedByIME_noComposition(e, allowed) ==
    imeInput /\ focused /\ ~allowed

BlockedByIME(e, allowed) ==
    \/ imeInput /\ focused /\ ~allowed
    \/ imeInput /\ isComposing

\* Alt+ArrowLeft / ArrowRight / Backspace, no other modifier
MutAltSequence_anyModifier(e) ==
    IF e.altKey
    THEN CASE e.key = K_ArrowLeft -> <<27, 98>>
           [] e.key = K_ArrowRight -> <<27, 102>>
           [] e.key = K_Backspace -> <<23>>
           [] OTHER -> Ignored
    ELSE Ignored

AltSequence(e) ==
    IF e.altKey /\ ~e.ctrlKey /\ ~e.metaKey /\ ~e.shiftKey
    THEN CASE e.key = K_ArrowLeft -> <<27, 98>>
           [] e.key = K_ArrowRight -> <<27, 102>>
           [] e.key = K_Backspace -> <<23>>
           [] OTHER -> Ignored
    ELSE Ignored

\* the switch over key, Escape apart
MutSwitchKey_anyKeyName(e) ==
    CASE e.key = K_Enter ->
            IF e.ctrlKey THEN S_ctrl_enter
            ELSE IF e.shiftKey THEN S_shift_enter ELSE S_enter
      [] e.key = K_Escape -> S_escape
      [] e.key = K_ArrowUp -> S_arrow_up
      [] e.key = K_ArrowDown -> S_arrow_down
      [] e.key = K_ArrowLeft -> S_arrow_left
      [] e.key = K_ArrowRight -> S_arrow_right
      [] e.key = K_Tab -> IF e.shiftKey THEN S_shift_tab ELSE S_tab
      [] e.key = K_Backspace -> S_backspace
      [] e.key = K_Delete -> S_delete
      [] e.key = <<32>> -> <<32>>
      [] OTHER -> e.key

MutSwitchKey_shiftFirst(e) ==
    CASE e.key = K_Enter ->
            IF e.shiftKey THEN S_shift_enter
            ELSE IF e.ctrlKey THEN S_ctrl_enter ELSE S_enter
      [] e.key = K_Escape -> S_escape
      [] e.key = K_ArrowUp -> S_arrow_up
      [] e.key = K_ArrowDown -> S_arrow_down
      [] e.key = K_ArrowLeft -> S_arrow_left
      [] e.key = K_ArrowRight -> S_arrow_right
      [] e.key = K_Tab -> IF e.shiftKey THEN S_shift_tab ELSE S_tab
      [] e.key = K_Backspace -> S_backspace
      [] e.key = K_Delete -> S_delete
      [] e.key = <<32>> -> <<32>>
      [] OTHER -> IF Len(e.key) = 1 THEN e.key ELSE Ignored

SwitchKey(e) ==
    CASE e.key = K_Enter ->
            IF e.ctrlKey THEN S_ctrl_enter
            ELSE IF e.shiftKey THEN S_shift_enter ELSE S_enter
      [] e.key = K_Escape -> S_escape
      [] e.key = K_ArrowUp -> S_arrow_up
      [] e.key = K_ArrowDown -> S_arrow_down
      [] e.key = K_ArrowLeft -> S_arrow_left
      [] e.key = K_ArrowRight -> S_arrow_right
      [] e.key = K_Tab -> IF e.shiftKey THEN S_shift_tab ELSE S_tab
      [] e.key = K_Backspace -> S_backspace
      [] e.key = K_Delete -> S_delete
      [] e.key = <<32>> -> <<32>>
      [] OTHER -> IF Len(e.key) = 1 THEN e.key ELSE Ignored

\* Ctrl + single character
MutCtrlCombination_offByOne(e, inputText) ==
    IF e.ctrlKey /\ Len(e.key) = 1 /\ e.key # K_Enter
    THEN LET charCode == ToLowerCode(e.key[1])
         IN IF charCode >= 97 /\ charCode <= 122
            THEN <<charCode - 97>> ELSE inputText
    ELSE inputText

CtrlCombination(e, inputText) ==
    IF e.ctrlKey /\ Len(e.key) = 1 /\ e.key # K_Enter
    THEN LET charCode == ToLowerCode(e.key[1])
         IN IF charCode >= 97 /\ charCode <= 122
            THEN <<charCode - 96>> ELSE inputText
    ELSE inputText

\* the input text handleKeyboardInput passes to sendInput
MapKey(e) ==
    IF AltSequence(e) # Ignored THEN AltSequence(e)
    ELSE IF SwitchKey(e) = Ignored THEN Ignored
    ELSE CtrlCombination(e, SwitchKey(e))

MutIsDoubleEscape_sameInstant(e) ==
    /\ AltSequence(e) = Ignored
    /\ e.key = K_Escape
    /\ now = lastEscapeTime

IsDoubleEscape(e) ==
    /\ AltSequence(e) = Ignored
    /\ e.key = K_Escape
    /\ now - lastEscapeTime < DOUBLE_ESCAPE_THRESHOLD

\* this.lastEscapeTime = 0: reset to prevent triple-tap
MutResetEscapeTime_keep == lastEscapeTime

ResetEscapeTime == 0

\* The run of Escape presses, each handled less than the threshold after the one
\* before, that a press handled now continues or starts; notified: notifications
\* the press raised. A run is counted from a press that finds no Escape recorded
\* within the threshold, up to MaxRun presses.
RunAfterPress(notified) ==
    LET r == ev.run
        uncounted == [n |-> MaxRun + 1, notes |-> 0, at |-> now]
    IN IF r.n >= 1 /\ now - r.at < DOUBLE_ESCAPE_THRESHOLD
       THEN IF r.n >= MaxRun THEN uncounted
            ELSE [n |-> r.n + 1, notes |-> r.notes + notified, at |-> now]
       ELSE IF now - lastEscapeTime < DOUBLE_ESCAPE_THRESHOLD THEN uncounted
            ELSE [n |-> 1, notes |-> notified, at |-> now]

\* the run a clock advance to time t leaves open
RunAfterTick(t) ==
    IF ev.run.n >= 1 /\ t - ev.run.at < DOUBLE_ESCAPE_THRESHOLD
    THEN ev.run ELSE NoEv.run

----------------------------------------------------------------------------
(* InputManager: dual-transport delivery *)

\* sendInput: key or text payload
MutKeyOrText_alwaysText(inputText) == [text |-> inputText]

KeyOrText(inputText) ==
    IF inputText \in specialKeys THEN [key |-> inputText] ELSE [text |-> inputText]

\* sendInputText / sendControlSequence: always text
TextPayload(text) == [text |-> text]

\* which transports one sendInputInternal call uses
MutTransport_noReturn(useWs, w) ==
    IF useWs
    THEN [ws |-> w, fetch |-> w # "threw"]
    ELSE [ws |-> "notOffered", fetch |-> TRUE]

MutTransport_noFallback(useWs, w) ==
    IF useWs
    THEN [ws |-> w, fetch |-> FALSE]
    ELSE [ws |-> "notOffered", fetch |-> TRUE]

Transport(useWs, w) ==
    IF useWs
    THEN CASE w = "accepted" -> [ws |-> w, fetch |-> FALSE]
           [] w = "rejected" -> [ws |-> w, fetch |-> TRUE]
           [] w = "threw" -> [ws |-> w, fetch |-> FALSE]
    ELSE [ws |-> "notOffered", fetch |-> TRUE]

\* the try/catch of sendInputInternal: how the returned promise settles
MutPromiseOutcome_noCatch(threwInTry, threwOutside) ==
    IF threwInTry \/ threwOutside THEN "rejected" ELSE "resolved"

PromiseOutcome(threwInTry, threwOutside) ==
    IF threwOutside THEN "rejected" ELSE "resolved"

ResponseOk(st) == st >= 200 /\ st <= 299

MutIsDefinitiveRejection_any4xx(st) == st >= 400 /\ st <= 499

MutIsDefinitiveRejection_anyFailure(st) == TRUE

IsDefinitiveRejection(st) == st = 400

\* the session object the rejection branch marks: this.session when the
\* response is handled; sid: the session the request was sent for
MutMarkedSession_captured(sid) == sid

MarkedSession(sid) == session

\* callbacks.requestUpdate() calls made by the rejection branch
MutRefreshRequests_none(marks) == 0

RefreshRequests(marks) == IF marks /\ callbacks THEN 1 ELSE 0

\* refreshIMEPosition: immediate reposition when the proxy has focus
Reposition == IF imeInput /\ focused THEN 1 ELSE 0

\* refreshIMEPosition: one setTimeout(..., 50) with each immediate reposition of
\* the step; R: the specification follows the reposition timers
SetRepositionTimers(R) ==
    IF R THEN /\ reposTimers + ev'.repos <= MaxReposTimers
              /\ reposTimers' = reposTimers + ev'.repos
    ELSE UNCHANGED reposTimers

\* one sendInputInternal call, up to its return or its await
MutSendCall_busyDrops(input, w) ==
    IF session = NoSession \/ inflight[session] > 0
    THEN [input |-> input, sid |-> session, exited |-> FALSE, ws |-> "notOffered",
          offered |-> <<>>, http |-> <<>>, done |-> TRUE]
    ELSE LET t == Transport(useWebSocketInput, w)
         IN [input |-> input, sid |-> session,
             exited |-> status[session] = "exited",
             ws |-> t.ws,
             offered |-> IF t.ws = "notOffered" THEN <<>> ELSE <<input>>,
             http |-> IF t.fetch THEN <<[sid |-> session, body |-> input]>> ELSE <<>>,
             done |-> ~t.fetch]

MutSendCall_notAwaited(input, w) ==
    IF session = NoSession
    THEN [input |-> input, sid |-> NoSession, exited |-> FALSE, ws |-> "notOffered",
          offered |-> <<>>, http |-> <<>>, done |-> TRUE]
    ELSE LET t == Transport(useWebSocketInput, w)
         IN [input |-> input, sid |-> session,
             exited |-> status[session] = "exited",
             ws |-> t.ws,
             offered |-> IF t.ws = "notOffered" THEN <<>> ELSE <<input>>,
             http |-> IF t.fetch THEN <<[sid |-> session, body |-> input]>> ELSE <<>>,
             done |-> TRUE]

SendCall(input, w) ==
    IF session = NoSession
    THEN [input |-> input, sid |-> NoSession, exited |-> FALSE, ws |-> "notOffered",
          offered |-> <<>>, http |-> <<>>, done |-> TRUE]
    ELSE LET t == Transport(useWebSocketInput, w)
         IN [input |-> input, sid |-> session,
             exited |-> status[session] = "exited",
             ws |-> t.ws,
             offered |-> IF t.ws = "notOffered" THEN <<>> ELSE <<input>>,
             http |-> IF t.fetch THEN <<[sid |-> session, body |-> input]>> ELSE <<>>,
             done |-> ~t.fetch]

\* the effect of the send calls of one step (one per input) on the manager, with
\* the other observations of the step
RECURSIVE SendCalls(_, _)
SendCalls(inputs, w) ==
    IF inputs = <<>> THEN <<>>
    ELSE <<SendCall(Head(inputs), w)>> \o SendCalls(Tail(inputs), w)

\* how the promises of the calls that returned without awaiting settle
RECURSIVE Settlements(_)
Settlements(cs) ==
    IF cs = <<>> THEN <<>>
    ELSE (IF Head(cs).done THEN <<PromiseOutcome(Head(cs).ws = "threw", FALSE)>> ELSE <<>>)
         \o Settlements(Tail(cs))

\* fallback requests the calls issued
RECURSIVE Requests(_)
Requests(cs) ==
    IF cs = <<>> THEN 0 ELSE Len(Head(cs).http) + Requests(Tail(cs))

SendAll(o, inputs, w) ==
    LET cs == SendCalls(inputs, w)
        returned == Len(Settlements(cs))
        awaiting == Requests(cs)
    IN /\ InflightCount + awaiting <= MaxInflight
       /\ inflight' = IF awaiting = 0 THEN inflight
                      ELSE [inflight EXCEPT ![session] = @ + awaiting]
       /\ ev' = [o EXCEPT !.calls = cs,
                          !.settled = Settlements(cs),
                          !.repos = returned * Reposition]
       /\ UNCHANGED ngrok

Send(o, input, w) == SendAll(o, <<input>>, w)

\* a step that sends nothing
Quiet(o) ==
    /\ ev' = o
    /\ UNCHANGED inflight
    /\ UNCHANGED ngrok

----------------------------------------------------------------------------
(* DesktopIMEInput: the composition proxy                                   *)
(* Tracked here: the composition flag, the buffer and the focus of the     *)
(* proxy, what its handlers hand to the callbacks, the opacity of the      *)
(* input and its hide / blur timers. The body attributes take no part in   *)
(* what is delivered or shown.                                             *)

\* the body attributes data-ime-composing and data-ime-input-focused
AttrVars == <<composingAttr, focusedAttr>>

ProxyVars == <<imeInput, isComposing, value, focused, liveProxies, visible,
               hideTimers, blurTimers, staleBlurTimers, composingAttr,
               focusedAttr>>

\* the device and the setup of the proxy
SetupVars == <<device, listener, setupTimers>>

\* what the input path leaves alone
LifeVars == <<device, listener, setupTimers, reposTimers>>

\* new DesktopIMEInput({..., autoFocus: true}); gains: input.focus() took effect.
\* focus() shows the input whether or not it gains focus.
CreateProxy(gains) ==
    /\ imeInput' = TRUE
    /\ liveProxies' = liveProxies + 1
    /\ isComposing' = FALSE
    /\ value' = EmptyStr
    /\ focused' = gains
    /\ visible' = TRUE
    /\ hideTimers' = 0
    /\ blurTimers' = 0
    /\ staleBlurTimers' = staleBlurTimers
    /\ composingAttr' = composingAttr
    /\ focusedAttr' = (focusedAttr \/ gains)

\* DesktopIMEInput.cleanup(): document.body.removeAttribute('data-ime-composing')
MutComposingAttrAfterCleanup_kept == composingAttr

ComposingAttrAfterCleanup == IF imeInput THEN FALSE ELSE composingAttr

\* if (this.imeInput) { this.imeInput.cleanup(); this.imeInput = null }
\* cleanup() cancels no timer. The hide timers of the removed input act on that
\* input only and are followed no further; its blur timers stay pending, for
\* their callback removes a body attribute.
CleanupProxy ==
    /\ staleBlurTimers + blurTimers <= MaxBlurTimers
    /\ staleBlurTimers' = staleBlurTimers + blurTimers
    /\ imeInput' = FALSE
    /\ liveProxies' = IF imeInput THEN liveProxies - 1 ELSE liveProxies
    /\ isComposing' = FALSE
    /\ value' = EmptyStr
    /\ focused' = FALSE
    /\ visible' = FALSE
    /\ hideTimers' = 0
    /\ blurTimers' = 0
    /\ composingAttr' = ComposingAttrAfterCleanup
    /\ focusedAttr' = (IF imeInput THEN FALSE ELSE focusedAttr)

\* the callbacks the manager hands to the proxy
MutOnTextInput_viaSendInput(text) ==
    [cb |-> "onTextInput", arg |-> text, input |-> KeyOrText(text)]

OnTextInput(text) == [cb |-> "onTextInput", arg |-> text, input |-> TextPayload(text)]
OnSpecialKey(key) == [cb |-> "onSpecialKey", arg |-> key, input |-> KeyOrText(key)]

\* a proxy handler that invoked the callbacks in emits (at most one) and nothing else
RECURSIVE EmittedInputs(_)
EmittedInputs(emits) ==
    IF emits = <<>> THEN <<>>
    ELSE <<Head(emits).input>> \o EmittedInputs(Tail(emits))

Emit(o, emits, w) ==
    SendAll([o EXCEPT !.emit = emits], EmittedInputs(emits), w)

\* handleInput: what is emitted for the buffer content text
MutInputEmits_whileComposing(composing, text) ==
    IF text # EmptyStr THEN <<OnTextInput(text)>> ELSE <<>>

MutInputEmits_asKey(composing, text) ==
    IF composing THEN <<>>
    ELSE IF text # EmptyStr THEN <<OnSpecialKey(text)>> ELSE <<>>

InputEmits(composing, text) ==
    IF composing THEN <<>>
    ELSE IF text # EmptyStr THEN <<OnTextInput(text)>> ELSE <<>>

\* handleCompositionEnd: what is emitted for e.data
CompositionEndEmits(data) ==
    IF data # EmptyStr THEN <<OnTextInput(data)>> ELSE <<>>

\* handleKeydown: what is emitted for a key event, and whether the buffer is cleared
MutKeydownEmits_ignoresBuffer(e) ==
    IF e.key = K_Enter THEN <<OnSpecialKey(S_enter)>>
    ELSE IF e.key = K_Backspace THEN <<OnSpecialKey(S_backspace)>>
    ELSE IF e.key = K_ArrowLeft THEN <<OnSpecialKey(S_arrow_left)>>
    ELSE IF e.key = K_ArrowRight THEN <<OnSpecialKey(S_arrow_right)>>
    ELSE <<>>

KeydownEmits(e) ==
    IF ((e.metaKey \/ e.ctrlKey) /\ e.key = <<118>>) \/ isComposing
    THEN <<>>
    ELSE CASE e.key = K_Enter ->
                IF ~IsBlank(value) THEN <<OnTextInput(value)>>
                ELSE <<OnSpecialKey(S_enter)>>
           [] e.key = K_Backspace ->
                IF value = EmptyStr THEN <<OnSpecialKey(S_backspace)>> ELSE <<>>
           [] e.key = K_Tab ->
                <<OnSpecialKey(IF e.shiftKey THEN S_shift_tab ELSE S_tab)>>
           [] e.key = K_Escape -> <<OnSpecialKey(S_escape)>>
           [] e.key = K_ArrowUp -> <<OnSpecialKey(S_arrow_up)>>
           [] e.key = K_ArrowDown -> <<OnSpecialKey(S_arrow_down)>>
           [] e.key = K_ArrowLeft ->
                IF value = EmptyStr THEN <<OnSpecialKey(S_arrow_left)>> ELSE <<>>
           [] e.key = K_ArrowRight ->
                IF value = EmptyStr THEN <<OnSpecialKey(S_arrow_right)>> ELSE <<>>
           [] e.key = K_Delete -> <<OnSpecialKey(S_delete)>>
           [] OTHER -> <<>>

\* the elements a paste event can target
PasteTargets == {"proxy", "terminal", "field"}

\* globalPasteHandler: the two early returns on the event target
MutGlobalPasteSkips_noProxyCheck(target) == target = "field"

GlobalPasteSkips(target) ==
    \/ target = "proxy"
    \/ target = "field"

\* handlePaste / globalPasteHandler: if (pastedText) { onTextInput; preventDefault }
PasteEmits(text) ==
    IF text # EmptyStr THEN [emit |-> <<OnTextInput(text)>>, prevented |-> 1]
    ELSE [emit |-> <<>>, prevented |-> 0]

\* showInput() / hideInput(): the opacity of the input, 0.8 or 0.01
Shown == TRUE
Hidden == FALSE

\* setTimeout(..., 100) of handleCompositionEnd and handleInput, and
\* setTimeout(..., 50) of handleBlur; T: the specification follows timer callbacks
SetHideTimer(T) ==
    IF T THEN hideTimers < MaxHideTimers /\ hideTimers' = hideTimers + 1
    ELSE UNCHANGED hideTimers

SetBlurTimer(T) ==
    /\ IF T THEN blurTimers < MaxBlurTimers /\ blurTimers' = blurTimers + 1
       ELSE UNCHANGED blurTimers
    /\ UNCHANGED staleBlurTimers

handleCompositionStart ==
    /\ imeInput /\ focused /\ ~isComposing
    /\ isComposing' = TRUE
    /\ visible' = Shown
    /\ composingAttr' = TRUE
    /\ UNCHANGED focusedAttr
    /\ Quiet(Op("compositionstart"))
    /\ UNCHANGED LifeVars
    /\ UNCHANGED <<liveProxies, hideTimers, blurTimers, staleBlurTimers>>
    /\ UNCHANGED <<session, status, callbacks, useWebSocketInput, lastEscapeTime, now,
                   imeInput, value, focused>>

handleCompositionUpdate(data) ==
    /\ imeInput /\ isComposing
    /\ Quiet(Op("compositionupdate"))
    /\ UNCHANGED LifeVars
    /\ UNCHANGED <<session, status, callbacks, useWebSocketInput, lastEscapeTime, now,
                   ProxyVars>>

handleCompositionEnd(data, w, T) ==
    /\ imeInput /\ isComposing
    /\ isComposing' = FALSE
    /\ composingAttr' = FALSE
    /\ UNCHANGED focusedAttr
    /\ value' = EmptyStr
    /\ Emit([Op("compositionend") EXCEPT !.arg = data], CompositionEndEmits(data), w)
    /\ SetHideTimer(T)
    /\ UNCHANGED LifeVars
    /\ UNCHANGED <<liveProxies, visible, blurTimers, staleBlurTimers>>
    /\ UNCHANGED <<session, status, callbacks, useWebSocketInput, lastEscapeTime, now,
                   imeInput, focused>>

\* the browser sets input.value to text and fires the input event
handleInput(text, w, T) ==
    /\ imeInput /\ focused
    /\ LET emits == InputEmits(isComposing, text)
       IN /\ value' = IF emits = <<>> THEN text ELSE EmptyStr
          /\ Emit([Op("input") EXCEPT !.arg = text], emits, w)
          /\ IF emits # <<>> THEN SetHideTimer(T) ELSE UNCHANGED hideTimers
    /\ UNCHANGED LifeVars
    /\ UNCHANGED AttrVars
    /\ UNCHANGED <<liveProxies, visible, blurTimers, staleBlurTimers>>
    /\ UNCHANGED <<session, status, callbacks, useWebSocketInput, lastEscapeTime, now,
                   imeInput, isComposing, focused>>

\* the proxy's keydown listener
handleKeydown(e, w) ==
    /\ imeInput /\ focused
    /\ LET emits == KeydownEmits(e)
       IN /\ value' = IF emits # <<>> /\ emits[1].cb = "onTextInput"
                      THEN EmptyStr ELSE value
          /\ Emit([Op("keydown") EXCEPT !.key = e,
                                     !.prevented = IF emits = <<>> THEN 0 ELSE 1],
                  emits, w)
    /\ UNCHANGED LifeVars
    /\ UNCHANGED AttrVars
    /\ UNCHANGED <<liveProxies, visible, hideTimers, blurTimers, staleBlurTimers>>
    /\ UNCHANGED <<session, status, callbacks, useWebSocketInput, lastEscapeTime, now,
                   imeInput, isComposing, focused>>

\* one paste event: the proxy's paste listener when the proxy is the target, then
\* the document-level listener the event bubbles to
PasteEvent(target, text, w) ==
    /\ imeInput
    /\ target = "proxy" => focused
    /\ LET own == IF target = "proxy" THEN PasteEmits(text)
                  ELSE [emit |-> <<>>, prevented |-> 0]
           global == IF GlobalPasteSkips(target)
                     THEN [emit |-> <<>>, prevented |-> 0]
                     ELSE PasteEmits(text)
           emits == own.emit \o global.emit
           o == [Op("paste") EXCEPT !.arg = text, !.target = target,
                                    !.prevented = own.prevented + global.prevented,
                                    !.emit = emits]
       IN /\ value' = IF own.emit # <<>> THEN EmptyStr ELSE value
          /\ SendAll(o, EmittedInputs(emits), w)
    /\ UNCHANGED LifeVars
    /\ UNCHANGED AttrVars
    /\ UNCHANGED <<liveProxies, visible, hideTimers, blurTimers, staleBlurTimers>>
    /\ UNCHANGED <<session, status, callbacks, useWebSocketInput, lastEscapeTime, now,
                   imeInput, isComposing, focused>>

handleFocus ==
    /\ imeInput /\ ~focused
    /\ focused' = TRUE
    /\ visible' = Shown
    /\ focusedAttr' = TRUE
    /\ UNCHANGED composingAttr
    /\ Quiet(Op("focus"))
    /\ UNCHANGED LifeVars
    /\ UNCHANGED <<liveProxies, hideTimers, blurTimers, staleBlurTimers>>
    /\ UNCHANGED <<session, status, callbacks, useWebSocketInput, lastEscapeTime, now,
                   imeInput, isComposing, value>>

\* the input loses focus; a composition in progress is not ended by that
handleBlur(T) ==
    /\ imeInput /\ focused
    /\ focused' = FALSE
    /\ SetBlurTimer(T)
    /\ Quiet(Op("blur"))
    /\ UNCHANGED LifeVars
    /\ UNCHANGED AttrVars
    /\ UNCHANGED <<liveProxies, visible, hideTimers>>
    /\ UNCHANGED <<session, status, callbacks, useWebSocketInput, lastEscapeTime, now,
                   imeInput, isComposing, value>>

\* the callbacks' tests before hideInput()
HideTimerHides == ~focused

BlurTimerUnfocused == ~focused

BlurTimerHides == BlurTimerUnfocused /\ ~isComposing

\* the callback of a timer set by handleCompositionEnd or handleInput
HideTimerFires ==
    /\ imeInput /\ hideTimers > 0
    /\ hideTimers' = hideTimers - 1
    /\ visible' = IF HideTimerHides THEN Hidden ELSE visible
    /\ Quiet([Op("hideTimer") EXCEPT !.allowed = ~HideTimerHides])
    /\ UNCHANGED LifeVars
    /\ UNCHANGED AttrVars
    /\ UNCHANGED <<liveProxies, blurTimers, staleBlurTimers>>
    /\ UNCHANGED <<session, status, callbacks, useWebSocketInput, lastEscapeTime, now,
                   imeInput, isComposing, value, focused>>

\* the callback of a timer set by handleBlur
BlurTimerFires ==
    /\ imeInput /\ blurTimers > 0
    /\ blurTimers' = blurTimers - 1
    /\ UNCHANGED staleBlurTimers
    /\ visible' = IF BlurTimerHides THEN Hidden ELSE visible
    /\ focusedAttr' = IF BlurTimerUnfocused THEN FALSE ELSE focusedAttr
    /\ UNCHANGED composingAttr
    /\ Quiet([Op("blurTimer") EXCEPT !.allowed = ~BlurTimerHides])
    /\ UNCHANGED LifeVars
    /\ UNCHANGED <<liveProxies, hideTimers>>
    /\ UNCHANGED <<session, status, callbacks, useWebSocketInput, lastEscapeTime, now,
                   imeInput, isComposing, value, focused>>

\* the callback of a blur timer whose input cleanup() has removed from the
\* document: document.activeElement !== this.input holds, whatever has focus
StaleBlurTimerUnfocused == TRUE

StaleBlurTimerFires ==
    /\ staleBlurTimers > 0
    /\ staleBlurTimers' = staleBlurTimers - 1
    /\ focusedAttr' = IF StaleBlurTimerUnfocused THEN FALSE ELSE focusedAttr
    /\ UNCHANGED composingAttr
    /\ Quiet(Op("staleBlurTimer"))
    /\ UNCHANGED LifeVars
    /\ UNCHANGED <<liveProxies, visible, hideTimers, blurTimers>>
    /\ UNCHANGED <<session, status, callbacks, useWebSocketInput, lastEscapeTime, now,
                   imeInput, isComposing, value, focused>>

----------------------------------------------------------------------------
(* InputManager: proxy setup *)

MAX_RETRIES == 10

Devices == {"desktop", "tablet", "phone"}

\* /iPhone|Android/i.test(userAgent) && !/iPad/.test(userAgent)
isMobilePhone == device = "phone"

\* detectMobile(): a handheld device class
detectMobile == device # "desktop"

RetryCounts == 1..MAX_RETRIES

RECURSIVE SumTimers(_, _)
SumTimers(t, n) == IF n = 0 THEN 0 ELSE t[n] + SumTimers(t, n - 1)

PendingSetupTimers == SumTimers(setupTimers, MAX_RETRIES)

\* setupIMEInput(retryCount); terminal: callbacks.getTerminalElement() returns the
\* element; container: one of the terminal containers is in the document
MutSetupOutcome_noExistsCheck(retryCount, terminal, container) ==
    IF isMobilePhone THEN "skipped"
    ELSE IF ~(callbacks /\ terminal)
    THEN IF retryCount >= MAX_RETRIES THEN "exhausted" ELSE "deferred"
    ELSE IF ~container THEN "noContainer"
    ELSE "created"

MutSetupOutcome_noRetryLimit(retryCount, terminal, container) ==
    IF isMobilePhone THEN "skipped"
    ELSE IF imeInput THEN "exists"
    ELSE IF ~(callbacks /\ terminal) THEN "deferred"
    ELSE IF ~container THEN "noContainer"
    ELSE "created"

SetupOutcome(retryCount, terminal, container) ==
    IF isMobilePhone THEN "skipped"
    ELSE IF imeInput THEN "exists"
    ELSE IF ~(callbacks /\ terminal)
    THEN IF retryCount >= MAX_RETRIES THEN "exhausted" ELSE "deferred"
    ELSE IF ~container THEN "noContainer"
    ELSE "created"

\* enableIMEInput() and forceSetupIMEInput()
EnableOutcome(container) ==
    IF detectMobile THEN "skipped"
    ELSE IF imeInput THEN "exists"
    ELSE IF session = NoSession THEN "noSession"
    ELSE IF ~container THEN "noContainer"
    ELSE "created"

\* The effect of a setup with this outcome on the proxy and on the retry timers
\* left pending (base: those pending apart from the one that fired). T: the
\* specification follows timer callbacks; where it does not, a timer that is set
\* is left out of the state, as no step would deliver it.
ApplySetup(outcome, retryCount, gains, base, T) ==
    /\ IF outcome = "created" THEN CreateProxy(gains) ELSE UNCHANGED ProxyVars
    /\ IF outcome = "deferred" /\ T
       THEN /\ SumTimers(base, MAX_RETRIES) < MaxSetupTimers
            /\ setupTimers' = [base EXCEPT ![retryCount + 1] = @ + 1]
       ELSE setupTimers' = base

----------------------------------------------------------------------------
(* InputManager: operations *)

\* InputManager.cleanup()
cleanup ==
    /\ CleanupProxy
    /\ listener' = FALSE
    /\ session' = NoSession
    /\ callbacks' = FALSE
    /\ Quiet([Op("cleanup") EXCEPT !.seq.torn = ev.seq.flying])
    /\ UNCHANGED <<status, useWebSocketInput, lastEscapeTime, now, device, setupTimers>>
    /\ UNCHANGED reposTimers

setCallbacks ==
    /\ ~callbacks
    /\ callbacks' = TRUE
    /\ Quiet(Op("setCallbacks"))
    /\ UNCHANGED <<session, status, useWebSocketInput, lastEscapeTime, now, ProxyVars,
                   LifeVars>>

\* setSession: if (session && this.useWebSocketInput) websocketInputClient.connect(session),
\* with the flag as the URL parameter has just set it
MutConnectCalls_ignoresFlag(s, param) ==
    IF s # NoSession THEN "called" ELSE "none"

ConnectCalls(s, param) ==
    IF s # NoSession /\ (IF param # "null" THEN param = "true" ELSE useWebSocketInput)
    THEN "called" ELSE "none"

\* setSession(s); terminal, container: what setupIMEInput finds; gains: the new
\* proxy's autofocus took effect; param: the socket_input URL parameter
setSession(s, terminal, container, gains, param, T) ==
    /\ IF s = NoSession /\ imeInput
       THEN /\ CleanupProxy
            /\ callbacks' = FALSE
            /\ listener' = FALSE
            /\ Quiet([Op("setSession") EXCEPT !.seq.torn = ev.seq.flying,
                                              !.conn = ConnectCalls(s, param)])
            /\ UNCHANGED setupTimers
       ELSE /\ IF s # NoSession /\ ~imeInput
               THEN LET outcome == SetupOutcome(0, terminal, container)
                    IN /\ ApplySetup(outcome, 0, gains, setupTimers, T)
                       /\ Quiet([Op("setSession") EXCEPT !.setup = outcome,
                                                         !.conn = ConnectCalls(s, param)])
               ELSE /\ UNCHANGED <<ProxyVars, setupTimers>>
                    /\ Quiet([Op("setSession") EXCEPT !.conn = ConnectCalls(s, param)])
            /\ listener' = IF s # NoSession /\ ~detectMobile THEN TRUE ELSE listener
            /\ UNCHANGED callbacks
    /\ session' = s
    /\ useWebSocketInput' = IF param # "null" THEN param = "true" ELSE useWebSocketInput
    /\ UNCHANGED <<status, lastEscapeTime, now, device>>
    /\ UNCHANGED reposTimers

\* the promise of websocketInputClient.connect(session) settles; a rejection goes
\* to the .catch of setSession, which logs it
ConnectSettles(opened) ==
    /\ session # NoSession /\ useWebSocketInput
    /\ Quiet([Op("connectSettles") EXCEPT !.conn = IF opened THEN "opened" ELSE "failed",
                                           !.seq.connFailed = ~opened])
    /\ UNCHANGED LifeVars
    /\ UNCHANGED <<session, status, callbacks, useWebSocketInput, lastEscapeTime, now,
                   ProxyVars>>

\* a setup retry timer fires: setupIMEInput(retryCount)
SetupTimerFires(retryCount, terminal, container, gains) ==
    /\ setupTimers[retryCount] > 0
    /\ LET outcome == SetupOutcome(retryCount, terminal, container)
           base == [setupTimers EXCEPT ![retryCount] = @ - 1]
       IN /\ ApplySetup(outcome, retryCount, gains, base, TRUE)
          /\ Quiet([Op("setupTimer") EXCEPT !.setup = outcome, !.retry = retryCount])
    /\ UNCHANGED <<session, status, callbacks, useWebSocketInput, lastEscapeTime, now,
                   device, listener>>
    /\ UNCHANGED reposTimers

\* retryIMESetup()
retryIMESetup(terminal, container, gains, T) ==
    /\ IF ~imeInput /\ ~detectMobile
       THEN LET outcome == SetupOutcome(0, terminal, container)
            IN /\ ApplySetup(outcome, 0, gains, setupTimers, T)
               /\ Quiet([Op("retryIMESetup") EXCEPT !.setup = outcome])
       ELSE /\ UNCHANGED <<ProxyVars, setupTimers>>
            /\ Quiet(Op("retryIMESetup"))
    /\ UNCHANGED <<session, status, callbacks, useWebSocketInput, lastEscapeTime, now,
                   device, listener>>
    /\ UNCHANGED reposTimers

\* enableIMEInput()
enableIMEInput(container, gains) ==
    /\ LET outcome == EnableOutcome(container)
       IN /\ ApplySetup(outcome, 0, gains, setupTimers, TRUE)
          /\ Quiet([Op("enableIMEInput") EXCEPT !.setup = outcome])
    /\ UNCHANGED <<session, status, callbacks, useWebSocketInput, lastEscapeTime, now,
                   device, listener>>
    /\ UNCHANGED reposTimers

\* a compositionstart event reaches the document: globalCompositionListener
GlobalCompositionStart(container, gains) ==
    /\ listener
    /\ IF ~imeInput /\ session # NoSession /\ ~detectMobile
       THEN LET outcome == EnableOutcome(container)
            IN /\ ApplySetup(outcome, 0, gains, setupTimers, TRUE)
               /\ Quiet([Op("globalCompositionStart") EXCEPT !.setup = outcome])
       ELSE /\ UNCHANGED <<ProxyVars, setupTimers>>
            /\ Quiet(Op("globalCompositionStart"))
    /\ UNCHANGED <<session, status, callbacks, useWebSocketInput, lastEscapeTime, now,
                   device, listener>>
    /\ UNCHANGED reposTimers

\* handleKeyboardInput(e); allowed: isIMEAllowedKey(e);
\* capture: callbacks.getKeyboardCaptureActive?.() ?? true
handleKeyboardInput(e, allowed, capture, w) ==
    LET o == [Op("handleKeyboardInput") EXCEPT !.key = e, !.allowed = allowed]
        reachesSwitch == AltSequence(e) = Ignored
        isEscape == reachesSwitch /\ e.key = K_Escape
        timed == IF isEscape THEN [o EXCEPT !.since = now - lastEscapeTime] ELSE o
    IN
    /\ IF \/ session = NoSession
          \/ BlockedByIME(e, allowed)
          \/ status[session] = "exited"
          \/ isCopyPasteShortcut(e)
       THEN /\ Quiet(o)
            /\ UNCHANGED lastEscapeTime
       ELSE IF IsDoubleEscape(e)
       THEN /\ Quiet(IF callbacks
                     THEN [timed EXCEPT !.toggles = <<[active |-> ~capture]>>,
                                        !.capture = <<capture>>,
                                        !.run = RunAfterPress(1)]
                     ELSE [timed EXCEPT !.run = RunAfterPress(0)])
            /\ lastEscapeTime' = ResetEscapeTime
       ELSE /\ lastEscapeTime' = IF isEscape THEN now ELSE lastEscapeTime
            /\ IF MapKey(e) = Ignored
               THEN Quiet(timed)
               ELSE Send([timed EXCEPT !.arg = MapKey(e),
                                       !.run = IF isEscape THEN RunAfterPress(0)
                                               ELSE NoEv.run],
                         KeyOrText(MapKey(e)), w)
    /\ UNCHANGED LifeVars
    /\ UNCHANGED <<session, status, callbacks, useWebSocketInput, now, ProxyVars>>

\* buffer contents a script leaves in the proxy's input element
BufferTexts == {EmptyStr, S_x, <<32>>}

\* input.value is assigned by a script: no input event is fired and no handler
\* of the proxy runs
BufferEdited(text) ==
    /\ imeInput
    /\ value # text
    /\ value' = text
    /\ Quiet([Op("bufferEdited") EXCEPT !.arg = text])
    /\ UNCHANGED LifeVars
    /\ UNCHANGED AttrVars
    /\ UNCHANGED <<liveProxies, visible, hideTimers, blurTimers, staleBlurTimers>>
    /\ UNCHANGED <<session, status, callbacks, useWebSocketInput, lastEscapeTime, now,
                   imeInput, isComposing, focused>>

\* keydown events typed into the focused proxy
DispatchEvents ==
    {KeyEvent(k, FALSE, FALSE, FALSE, FALSE) :
        k \in {K_Enter, K_Escape, K_Backspace, K_Delete, K_ArrowLeft, K_ArrowRight,
               S_x}}

\* e.stopPropagation() of the proxy's keydown listener: in the Delete case only
StopsPropagation(e) == KeydownEmits(e) # <<>> /\ e.key = K_Delete

\* one keydown event with the proxy as its target: the proxy's keydown listener,
\* then, unless that stopped the propagation, the document-level listener that
\* passes the event to handleKeyboardInput. Neither handler reads what the other
\* one changes (the buffer, lastEscapeTime).
KeydownEvent(e, allowed, capture, w) ==
    /\ imeInput /\ focused
    /\ LET emits == KeydownEmits(e)
           o == [Op("keydownEvent") EXCEPT !.key = e, !.allowed = allowed,
                                          !.emit = emits,
                                          !.prevented = IF emits = <<>> THEN 0 ELSE 1]
           reachesSwitch == AltSequence(e) = Ignored
           isEscape == reachesSwitch /\ e.key = K_Escape
           timed == IF isEscape THEN [o EXCEPT !.since = now - lastEscapeTime] ELSE o
       IN /\ value' = IF emits # <<>> /\ emits[1].cb = "onTextInput"
                      THEN EmptyStr ELSE value
          /\ IF \/ StopsPropagation(e)
                \/ session = NoSession
                \/ BlockedByIME(e, allowed)
                \/ status[session] = "exited"
                \/ isCopyPasteShortcut(e)
             THEN /\ SendAll(o, EmittedInputs(emits), w)
                  /\ UNCHANGED lastEscapeTime
             ELSE IF IsDoubleEscape(e)
             THEN /\ SendAll(IF callbacks
                             THEN [timed EXCEPT !.toggles = <<[active |-> ~capture]>>,
                                                !.capture = <<capture>>,
                                                !.run = RunAfterPress(1)]
                             ELSE [timed EXCEPT !.run = RunAfterPress(0)],
                             EmittedInputs(emits), w)
                  /\ lastEscapeTime' = ResetEscapeTime
             ELSE /\ lastEscapeTime' = IF isEscape THEN now ELSE lastEscapeTime
                  /\ IF MapKey(e) = Ignored
                     THEN SendAll(timed, EmittedInputs(emits), w)
                     ELSE SendAll([timed EXCEPT !.arg = MapKey(e),
                                                !.run = IF isEscape THEN RunAfterPress(0)
                                                        ELSE NoEv.run],
                                  EmittedInputs(emits) \o <<KeyOrText(MapKey(e))>>, w)
    /\ UNCHANGED LifeVars
    /\ UNCHANGED AttrVars
    /\ UNCHANGED <<liveProxies, visible, hideTimers, blurTimers, staleBlurTimers>>
    /\ UNCHANGED <<session, status, callbacks, useWebSocketInput, now,
                   imeInput, isComposing, focused>>

sendInput(inputText, w, R) ==
    /\ Send([Op("sendInput") EXCEPT !.arg = inputText], KeyOrText(inputText), w)
    /\ SetRepositionTimers(R)
    /\ UNCHANGED SetupVars
    /\ UNCHANGED <<session, status, callbacks, useWebSocketInput, lastEscapeTime, now,
                   ProxyVars>>

sendInputText(text, w, R) ==
    /\ Send([Op("sendInputText") EXCEPT !.arg = text], TextPayload(text), w)
    /\ SetRepositionTimers(R)
    /\ UNCHANGED SetupVars
    /\ UNCHANGED <<session, status, callbacks, useWebSocketInput, lastEscapeTime, now,
                   ProxyVars>>

sendControlSequence(controlChar, w, R) ==
    /\ Send([Op("sendControlSequence") EXCEPT !.arg = controlChar],
            TextPayload(controlChar), w)
    /\ SetRepositionTimers(R)
    /\ UNCHANGED SetupVars
    /\ UNCHANGED <<session, status, callbacks, useWebSocketInput, lastEscapeTime, now,
                   ProxyVars>>

\* sendInput(inputText) by a caller that keeps the promise it returns
CallerSend(inputText, w) ==
    /\ ev.seq.n < MaxSeq
    /\ LET c == SendCall(KeyOrText(inputText), w)
           k == ev.seq.n + 1
           q == [n |-> k,
                 pending |-> ev.seq.pending \cup (IF c.done THEN {} ELSE {k}),
                 flying |-> ev.seq.flying \cup (IF c.http # <<>> THEN {k} ELSE {}),
                 torn |-> ev.seq.torn,
                 awaited |-> ev.seq.awaited /\ ev.seq.pending = {},
                 done |-> ev.seq.done \o
                          (IF c.ws = "accepted" THEN <<[call |-> k, via |-> "ws"]>>
                           ELSE <<>>),
                 refreshes |-> ev.seq.refreshes,
                 connFailed |-> ev.seq.connFailed]
       IN Send([Op("sendInput") EXCEPT !.arg = inputText, !.seq = q],
               KeyOrText(inputText), w)
    /\ UNCHANGED LifeVars
    /\ UNCHANGED <<session, status, callbacks, useWebSocketInput, lastEscapeTime, now,
                   ProxyVars>>

\* the caller's call whose fallback request is answered, when it has any in flight
AnsweredCalls == IF ev.seq.flying = {} THEN {0} ELSE ev.seq.flying

\* the rest of sendInputInternal, after await fetch(...) for a request sent for sid
\* settled with outcome, and the refreshIMEPosition() of its caller
FetchSettles(sid, outcome, R) ==
    /\ inflight[sid] > 0
    /\ inflight' = [inflight EXCEPT ![sid] = @ - 1]
    /\ LET marks == /\ outcome # NetworkError
                    /\ ~ResponseOk(outcome)
                    /\ IsDefinitiveRejection(outcome)
                    /\ MarkedSession(sid) # NoSession
       IN /\ status' = IF marks THEN [status EXCEPT ![MarkedSession(sid)] = "exited"]
                        ELSE status
          /\ \E k \in AnsweredCalls :
                ev' = [Op("fetchSettles") EXCEPT
                         !.resp = outcome,
                         !.sid = sid,
                         !.refresh = RefreshRequests(marks),
                         !.settled = <<PromiseOutcome(outcome = NetworkError, FALSE)>>,
                         !.repos = Reposition,
                         !.req = k,
                         !.wasTorn = k \in ev.seq.torn,
                         !.seq = IF k = 0 THEN ev.seq
                                 ELSE [ev.seq EXCEPT
                                         !.pending = @ \ {k},
                                         !.flying = @ \ {k},
                                         !.torn = @ \ {k},
                                         !.done = @ \o <<[call |-> k, via |-> "http"]>>,
                                         !.refreshes = @ + RefreshRequests(marks)]]
    /\ SetRepositionTimers(R)
    /\ UNCHANGED SetupVars
    /\ UNCHANGED ngrok
    /\ UNCHANGED <<session, callbacks, useWebSocketInput, lastEscapeTime, now, ProxyVars>>

\* the callback of a reposition timer: this.imeInput?.refreshPosition()
RepositionTimerFires ==
    /\ reposTimers > 0
    /\ reposTimers' = reposTimers - 1
    /\ Quiet([Op("repositionTimer") EXCEPT !.delayed = IF imeInput THEN 1 ELSE 0])
    /\ UNCHANGED SetupVars
    /\ UNCHANGED <<session, status, callbacks, useWebSocketInput, lastEscapeTime, now,
                   ProxyVars>>

\* a short time passes
ShortTick ==
    /\ now + ShortStep <= StartTime + MaxTicks * TickStep
    /\ now' = now + ShortStep
    /\ Quiet([Op("tick") EXCEPT !.run = RunAfterTick(now + ShortStep)])
    /\ UNCHANGED LifeVars
    /\ UNCHANGED <<session, status, callbacks, useWebSocketInput, lastEscapeTime,
                   ProxyVars>>

\* time passes
Tick ==
    /\ now + TickStep <= StartTime + MaxTicks * TickStep
    /\ now' = now + TickStep
    /\ Quiet([Op("tick") EXCEPT !.run = RunAfterTick(now + TickStep)])
    /\ UNCHANGED LifeVars
    /\ UNCHANGED <<session, status, callbacks, useWebSocketInput, lastEscapeTime,
                   ProxyVars>>

----------------------------------------------------------------------------
(* Specifications *)

----------------------------------------------------------------------------
(* NgrokService: the tunnel service and its ngrok child processes *)

\* the variables of the input path
ManagerVars == <<session, status, callbacks, useWebSocketInput, lastEscapeTime, now,
                 imeInput, isComposing, value, focused, inflight, device, listener,
                 setupTimers, liveProxies, visible, hideTimers, blurTimers,
                 staleBlurTimers, composingAttr, focusedAttr, reposTimers, ev>>

\* the child processes one service spawns, in the order of their spawn() calls
Children == 1..MaxChildren

\* null, for ngrokProcess and currentTunnel
NoChild == 0

\* new NgrokService(config). A tunnel is named by the child that reported it.
NewNgrokService ==
    [ngrokProcess |-> NoChild,   \* this.ngrokProcess
     currentTunnel |-> NoChild,  \* this.currentTunnel
     isRunning |-> FALSE,        \* this.isRunning
     awaiting |-> 0,             \* start() calls awaiting checkNgrokBinary
     proc |-> [k \in Children |-> "unborn"],   \* unborn, live, failed, closed
     resolved |-> [k \in Children |-> FALSE],  \* the resolved flag of the start() that spawned k
     startupTimeout |-> [k \in Children |-> FALSE],  \* its 30 s timer is pending
     settles |-> [k \in Children |-> 0],       \* resolve / reject calls on its promise
     stopListener |-> [k \in Children |-> FALSE],  \* a stop() attached its 'close' listener to k
     killTimeout |-> [k \in Children |-> 0],   \* pending 5 s timers of the stop() calls on k
     stops |-> 0,                \* stop() calls that found a process
     last |-> [op |-> "new", child |-> NoChild, ret |-> "none", resolves |-> 0]]

isActive == ngrok.isRunning

getTunnel == ngrok.currentTunnel

\* child processes spawned and not closed
Live == {k \in Children : ngrok.proc[k] = "live"}

Unborn == {k \in Children : ngrok.proc[k] = "unborn"}

\* what the last step of the service did: its return value or promise outcome
\* (ret) and the stop() promises it resolved (resolves)
Did(op, child, ret, resolves) ==
    [op |-> op, child |-> child, ret |-> ret, resolves |-> resolves]

\* start() up to await this.checkNgrokBinary()
start ==
    /\ IF ngrok.isRunning /\ ngrok.currentTunnel # NoChild
       THEN ngrok' = [ngrok EXCEPT !.last = Did("start", ngrok.currentTunnel, "existing", 0)]
       ELSE /\ ngrok.awaiting < Cardinality(Unborn)
            /\ ngrok' = [ngrok EXCEPT !.awaiting = @ + 1,
                                      !.last = Did("start", NoChild, "pending", 0)]
    /\ UNCHANGED ManagerVars

\* start() after the await; found: checkNgrokBinary returned a path
startContinues(found) ==
    /\ ngrok.awaiting > 0
    /\ LET k == CHOOSE c \in Unborn : \A d \in Unborn : c <= d
           n == [ngrok EXCEPT !.awaiting = @ - 1]
       IN ngrok' = IF found
                   THEN [n EXCEPT !.ngrokProcess = k,
                                  !.proc[k] = "live",
                                  !.resolved[k] = FALSE,
                                  !.startupTimeout[k] = TRUE,
                                  !.last = Did("spawn", k, "pending", 0)]
                   ELSE [n EXCEPT !.last = Did("startContinues", NoChild, "rejected", 0)]
    /\ UNCHANGED ManagerVars

\* handleOutput: a 'started tunnel' line with a url on the stdout of child k
handleOutput(k) ==
    /\ ngrok.proc[k] = "live"
    /\ ~ngrok.resolved[k]
    /\ ngrok' = [ngrok EXCEPT !.resolved[k] = TRUE,
                              !.currentTunnel = k,
                              !.isRunning = TRUE,
                              !.startupTimeout[k] = FALSE,
                              !.settles[k] = @ + 1,
                              !.last = Did("handleOutput", k, "resolved", 0)]
    /\ UNCHANGED ManagerVars

\* ngrokProcess.on('error'): child k could not be spawned
OnError(k) ==
    /\ ngrok.proc[k] = "live"
    /\ ~ngrok.resolved[k]
    /\ ngrok' = [ngrok EXCEPT !.proc[k] = "failed",
                              !.resolved[k] = TRUE,
                              !.isRunning = FALSE,
                              !.startupTimeout[k] = FALSE,
                              !.settles[k] = @ + 1,
                              !.last = Did("error", k, "rejected", 0)]
    /\ UNCHANGED ManagerVars

\* child k closes: the 'close' listener of start(), then those of the stop()
\* calls made while k was this.ngrokProcess
OnClose(k) ==
    /\ ngrok.proc[k] \in {"live", "failed"}
    /\ ngrok' = [ngrok EXCEPT !.proc[k] = "closed",
                              !.isRunning = FALSE,
                              !.currentTunnel = NoChild,
                              !.ngrokProcess = IF ngrok.stopListener[k] THEN NoChild ELSE @,
                              !.killTimeout[k] = 0,
                              !.last = Did("close", k, "none", ngrok.killTimeout[k])]
    /\ UNCHANGED ManagerVars

\* stop() when this.ngrokProcess is set: the 'close' listener, the 5 s timer and
\* SIGTERM
Stopping(n) ==
    [n EXCEPT !.stopListener[n.ngrokProcess] = TRUE,
              !.killTimeout[n.ngrokProcess] = @ + 1,
              !.stops = @ + 1]

stop ==
    /\ IF ngrok.ngrokProcess = NoChild
       THEN ngrok' = [ngrok EXCEPT !.last = Did("stop", NoChild, "resolved", 1)]
       ELSE /\ ngrok.stops < MaxStops
            /\ ngrok' = [Stopping(ngrok) EXCEPT
                            !.last = Did("stop", ngrok.ngrokProcess, "pending", 0)]
    /\ UNCHANGED ManagerVars

\* the 30 s startup timer of the start() that spawned k
StartupTimeoutFires(k) ==
    /\ ngrok.startupTimeout[k]
    /\ ngrok.ngrokProcess # NoChild /\ ~ngrok.resolved[k] => ngrok.stops < MaxStops
    /\ LET n == [ngrok EXCEPT !.startupTimeout[k] = FALSE]
           rejected == [n EXCEPT !.resolved[k] = TRUE, !.settles[k] = @ + 1]
       IN ngrok' = IF ngrok.resolved[k]
                   THEN [n EXCEPT !.last = Did("startupTimeout", k, "none", 0)]
                   ELSE IF ngrok.ngrokProcess = NoChild
                   THEN [rejected EXCEPT !.last = Did("startupTimeout", k, "rejected", 1)]
                   ELSE [Stopping(rejected) EXCEPT
                            !.last = Did("startupTimeout", k, "rejected", 0)]
    /\ UNCHANGED ManagerVars

\* the 5 s timer of a stop() call on k: SIGKILL to this.ngrokProcess if set, resolve()
KillTimeoutFires(k) ==
    /\ ngrok.killTimeout[k] > 0
    /\ ngrok' = [ngrok EXCEPT !.killTimeout[k] = @ - 1,
                              !.last = Did("killTimeout", k, "none", 1)]
    /\ UNCHANGED ManagerVars

\* the state after construction, on a device of one of the classes D
InitOn(D) ==
    /\ device \in D
    /\ session = NoSession
    /\ status = [s \in Sessions |-> "active"]
    /\ callbacks = FALSE
    /\ useWebSocketInput = TRUE
    /\ lastEscapeTime = 0
    /\ now = StartTime
    /\ imeInput = FALSE
    /\ isComposing = FALSE
    /\ value = EmptyStr
    /\ focused = FALSE
    /\ inflight = [s \in Sessions |-> 0]
    /\ listener = FALSE
    /\ setupTimers = [n \in RetryCounts |-> 0]
    /\ liveProxies = 0
    /\ visible = FALSE
    /\ hideTimers = 0
    /\ blurTimers = 0
    /\ staleBlurTimers = 0
    /\ composingAttr = FALSE
    /\ focusedAttr = FALSE
    /\ reposTimers = 0
    /\ ngrok = NewNgrokService
    /\ ev = NoEv

Init == InitOn({"desktop"})

\* The inputs of a step are drawn only where the code reads them: the persistent
\* channel's result when a payload is offered to it, isIMEAllowedKey when the
\* proxy has focus, the capture state on a double Escape, the setup outcome when
\* setupIMEInput gets as far as the terminal element.
WsDraw(W) == IF session # NoSession /\ useWebSocketInput THEN W ELSE {"rejected"}
AllowedDraw == IF imeInput /\ focused THEN BOOLEAN ELSE {TRUE}
CaptureDraw(e) == IF IsDoubleEscape(e) /\ callbacks THEN BOOLEAN ELSE {TRUE}
TerminalDraw == IF callbacks /\ ~isMobilePhone THEN BOOLEAN ELSE {FALSE}
ContainerDraw(found) == IF found THEN BOOLEAN ELSE {FALSE}
GainsDraw(ready) == IF ready THEN BOOLEAN ELSE {FALSE}

\* the steps of the input path, with the persistent channel's send drawn from W
\* and the session objects handed to setSession drawn from SS; timer callbacks
\* are not followed
InputStep(W, SS) ==
    \/ cleanup
    \/ setCallbacks
    \/ \E s \in SS \cup {NoSession}, param \in UrlParams :
          \E terminal \in (IF s # NoSession THEN TerminalDraw ELSE {FALSE}) :
             \E container \in ContainerDraw(terminal) :
                \E gains \in GainsDraw(container) :
                   setSession(s, terminal, container, gains, param, FALSE)
    \/ \E e \in KeyEvents, allowed \in AllowedDraw, w \in WsDraw(W) :
          \E capture \in CaptureDraw(e) : handleKeyboardInput(e, allowed, capture, w)
    \/ \E t \in ApiInputs, w \in WsDraw(W) : sendInput(t, w, FALSE)
    \/ \E t \in ApiInputs, w \in WsDraw(W) : sendInputText(t, w, FALSE)
    \/ \E c \in ControlChars, w \in WsDraw(W) : sendControlSequence(c, w, FALSE)
    \/ \E sid \in Sessions, outcome \in FetchOutcomes : FetchSettles(sid, outcome, FALSE)
    \/ handleCompositionStart
    \/ \E t \in Texts : handleCompositionUpdate(t)
    \/ \E t \in Texts, w \in WsDraw(W) : handleCompositionEnd(t, w, FALSE)
    \/ \E t \in Texts, w \in WsDraw(W) : handleInput(t, w, FALSE)
    \/ \E e \in KeyEvents, w \in WsDraw(W) : handleKeydown(e, w)
    \/ \E target \in PasteTargets, t \in Texts, w \in WsDraw(W) :
          PasteEvent(target, t, w)
    \/ handleFocus
    \/ handleBlur(FALSE)

\* the same, with time passing
Step(W, SS) == InputStep(W, SS) \/ Tick

\* one session object; the persistent channel's send returns its boolean
Next == Step(WsReturns, {"s1"})

Spec == Init /\ [][Next]_vars

\* one session object; the persistent channel's send may also throw
NextThrow == Step(WsOutcomes, {"s1"})

SpecThrow == Init /\ [][NextThrow]_vars

\* the view is handed one session object, then another; the clock stands still
NextSwitch == InputStep(WsReturns, Sessions)

SpecSwitch == Init /\ [][NextSwitch]_vars

\* one session object; the clock also advances by less than the double-Escape
\* threshold
NextEscape == Step(WsReturns, {"s1"}) \/ ShortTick

SpecEscape == Init /\ [][NextEscape]_vars

\* one session object; keydown events also cover Ctrl with every letter
NextKeys ==
    \/ Step(WsReturns, {"s1"})
    \/ \E e \in CtrlLetterEvents, allowed \in AllowedDraw, w \in WsDraw(WsReturns) :
          handleKeyboardInput(e, allowed, TRUE, w)

SpecKeys == Init /\ [][NextKeys]_vars

\* The life of the proxy on every device class: sessions set and cleared, the
\* setup retry timers, retryIMESetup, enableIMEInput, the document's
\* compositionstart listener and cleanup, in every order; timer callbacks are
\* followed.
NextSetup ==
    \/ cleanup
    \/ setCallbacks
    \/ \E s \in {"s1", NoSession} :
          \E terminal \in (IF s # NoSession THEN TerminalDraw ELSE {FALSE}) :
             \E container \in ContainerDraw(terminal) :
                \E gains \in GainsDraw(container) :
                   setSession(s, terminal, container, gains, "null", TRUE)
    \/ \E retryCount \in RetryCounts, terminal \in TerminalDraw :
          \E container \in ContainerDraw(terminal) :
             \E gains \in GainsDraw(container) :
                SetupTimerFires(retryCount, terminal, container, gains)
    \/ \E terminal \in TerminalDraw :
          \E container \in ContainerDraw(terminal) :
             \E gains \in GainsDraw(container) :
                retryIMESetup(terminal, container, gains, TRUE)
    \/ \E container \in BOOLEAN : \E gains \in GainsDraw(container) :
          enableIMEInput(container, gains)
    \/ \E container \in BOOLEAN : \E gains \in GainsDraw(container) :
          GlobalCompositionStart(container, gains)

SpecSetup == InitOn(Devices) /\ [][NextSetup]_vars

\* A caller that keeps the promises of its send calls, on one session object
\* that is set, torn down and set again; no other sends.
NextCaller ==
    \/ cleanup
    \/ setCallbacks
    \/ \E s \in {"s1", NoSession} :
          \E terminal \in (IF s # NoSession THEN TerminalDraw ELSE {FALSE}) :
             \E container \in ContainerDraw(terminal) :
                \E gains \in GainsDraw(container) :
                   setSession(s, terminal, container, gains, "null", FALSE)
    \/ \E t \in ApiInputs, w \in WsDraw(WsReturns) : CallerSend(t, w)
    \/ \E outcome \in FetchOutcomes : FetchSettles("s1", outcome, FALSE)

SpecCaller == Init /\ [][NextCaller]_vars

\* The proxy of one session with its hide and blur timers: focus, blur,
\* compositions and plain input, and the timer callbacks.
NextFocus ==
    \/ setCallbacks
    \/ \E terminal \in TerminalDraw :
          \E container \in ContainerDraw(terminal) :
             \E gains \in GainsDraw(container) :
                setSession("s1", terminal, container, gains, "null", FALSE)
    \/ handleCompositionStart
    \/ \E t \in Texts, w \in WsDraw(WsReturns) : handleCompositionEnd(t, w, TRUE)
    \/ \E t \in Texts, w \in WsDraw(WsReturns) : handleInput(t, w, TRUE)
    \/ handleFocus
    \/ handleBlur(TRUE)
    \/ HideTimerFires
    \/ BlurTimerFires
    \/ \E outcome \in FetchOutcomes : FetchSettles("s1", outcome, FALSE)

SpecFocus == Init /\ [][NextFocus]_vars

\* One session with the feature flag of the persistent channel set by the URL
\* parameter, the connection that setSession starts, and the API sends.
NextChannel ==
    \/ cleanup
    \/ \E s \in {"s1", NoSession}, param \in UrlParams :
          setSession(s, FALSE, FALSE, FALSE, param, FALSE)
    \/ \E opened \in BOOLEAN : ConnectSettles(opened)
    \/ \E t \in ApiInputs, w \in WsDraw(WsReturns) : sendInput(t, w, FALSE)
    \/ \E t \in ApiInputs, w \in WsDraw(WsReturns) : sendInputText(t, w, FALSE)
    \/ \E c \in ControlChars, w \in WsDraw(WsReturns) : sendControlSequence(c, w, FALSE)
    \/ \E outcome \in FetchOutcomes : FetchSettles("s1", outcome, FALSE)

SpecChannel == Init /\ [][NextChannel]_vars

\* One NgrokService: start() and stop() calls, the events of its child
\* processes and its timers.
NextNgrok ==
    \/ start
    \/ \E found \in BOOLEAN : startContinues(found)
    \/ \E k \in Children : handleOutput(k)
    \/ \E k \in Children : OnError(k)
    \/ \E k \in Children : OnClose(k)
    \/ stop
    \/ \E k \in Children : StartupTimeoutFires(k)
    \/ \E k \in Children : KillTimeoutFires(k)

SpecNgrok == Init /\ [][NextNgrok]_vars

\* the same; a timer that is set and not cleared fires
SpecNgrokFair ==
    /\ SpecNgrok
    /\ \A k \in Children : WF_vars(StartupTimeoutFires(k))
    /\ \A k \in Children : WF_vars(KillTimeoutFires(k))

\* Keydown events typed into the focused proxy of one session, passed to the
\* proxy's listener alone or to it and to the document-level one, with a buffer
\* that a script may have filled.
NextDispatch ==
    \/ setCallbacks
    \/ \E terminal \in TerminalDraw :
          \E container \in ContainerDraw(terminal) :
             \E gains \in GainsDraw(container) :
                setSession("s1", terminal, container, gains, "null", FALSE)
    \/ handleFocus
    \/ handleBlur(FALSE)
    \/ handleCompositionStart
    \/ \E t \in Texts, w \in WsDraw(WsReturns) : handleCompositionEnd(t, w, FALSE)
    \/ \E t \in Texts, w \in WsDraw(WsReturns) : handleInput(t, w, FALSE)
    \/ \E e \in DispatchEvents, allowed \in AllowedDraw, w \in WsDraw(WsReturns) :
          \E capture \in CaptureDraw(e) : KeydownEvent(e, allowed, capture, w)
    \/ \E e \in DispatchEvents, w \in WsDraw(WsReturns) : handleKeydown(e, w)
    \/ \E t \in BufferTexts : BufferEdited(t)
    \/ \E outcome \in FetchOutcomes : FetchSettles("s1", outcome, FALSE)

SpecDispatch == Init /\ [][NextDispatch]_vars

\* A proxy that is cleaned up and set up again while its timers are pending:
\* focus, blur, compositions and plain input, the timer callbacks of the
\* existing proxy and the blur timer callbacks of the removed ones.
NextReplace ==
    \/ setCallbacks
    \/ \E terminal \in TerminalDraw :
          \E container \in ContainerDraw(terminal) :
             \E gains \in GainsDraw(container) :
                setSession("s1", terminal, container, gains, "null", FALSE)
    \/ cleanup
    \/ handleCompositionStart
    \/ \E t \in Texts, w \in WsDraw(WsReturns) : handleCompositionEnd(t, w, FALSE)
    \/ handleFocus
    \/ handleBlur(TRUE)
    \/ BlurTimerFires
    \/ StaleBlurTimerFires
    \/ \E outcome \in FetchOutcomes : FetchSettles("s1", outcome, FALSE)

SpecReplace == Init /\ [][NextReplace]_vars

\* The API sends of one session with the reposition timers they set, and a
\* proxy that gains and loses focus.
NextRepos ==
    \/ setCallbacks
    \/ \E terminal \in TerminalDraw :
          \E container \in ContainerDraw(terminal) :
             \E gains \in GainsDraw(container) :
                setSession("s1", terminal, container, gains, "null", FALSE)
    \/ \E t \in ApiInputs, w \in WsDraw(WsReturns) : sendInput(t, w, TRUE)
    \/ \E t \in ApiInputs, w \in WsDraw(WsReturns) : sendInputText(t, w, TRUE)
    \/ \E c \in ControlChars, w \in WsDraw(WsReturns) : sendControlSequence(c, w, TRUE)
    \/ \E outcome \in FetchOutcomes : FetchSettles("s1", outcome, TRUE)
    \/ handleFocus
    \/ handleBlur(FALSE)
    \/ RepositionTimerFires

SpecRepos == Init /\ [][NextRepos]_vars

\* The document-level keydown handler on Enter, Tab, the arrows and Backspace
\* with every combination of modifiers, for one session with its proxy.
NextMapper ==
    \/ setCallbacks
    \/ \E terminal \in TerminalDraw :
          \E container \in ContainerDraw(terminal) :
             \E gains \in GainsDraw(container) :
                setSession("s1", terminal, container, gains, "null", FALSE)
    \/ \E e \in MapperEvents, allowed \in AllowedDraw, w \in WsDraw(WsReturns) :
          \E capture \in CaptureDraw(e) : handleKeyboardInput(e, allowed, capture, w)
    \/ \E outcome \in FetchOutcomes : FetchSettles("s1", outcome, FALSE)
    \/ handleCompositionStart
    \/ handleFocus
    \/ handleBlur(FALSE)

SpecMapper == Init /\ [][NextMapper]_vars

----------------------------------------------------------------------------
(* Claims *)

Calls == {ev.calls[i] : i \in 1..Len(ev.calls)}

\* a send call that used a transport
UsedTransport(c) == c.offered # <<>> \/ c.http # <<>>

\* C1: once a session's status is exited, no entry point offers a payload to the
\* persistent channel or issues a fallback request for it.
C1_NoSendAfterExited ==
    \A c \in Calls : c.exited => ~UsedTransport(c)

\* C2: every send call made while a session is set and not exited uses exactly
\* one transport: the persistent channel accepted the payload and no fallback
\* request was issued, or it did not and exactly one fallback request was issued.
C2_ExactlyOneTransport ==
    \A c \in Calls :
        c.sid # NoSession /\ ~c.exited =>
            \/ c.ws = "accepted" /\ c.http = <<>>
            \/ c.ws \in {"rejected", "notOffered"} /\ Len(c.http) = 1

C2_Witness ==
    \E c \in Calls : ~c.exited /\ c.ws = "rejected" /\ Len(c.http) = 1

\* C3: when the persistent channel returns false, exactly one fallback request is
\* issued and its body is the payload that was offered to the channel; when it
\* returns true, no fallback request is issued.
C3_FallbackOnRejection ==
    \A c \in Calls :
        /\ c.ws = "rejected" =>
              /\ Len(c.http) = 1
              /\ c.offered = <<c.http[1].body>>
              /\ c.http[1].sid = c.sid
        /\ c.ws = "accepted" => c.http = <<>>

C3_Witness ==
    \E c \in Calls :
        /\ c.ws = "rejected"
        /\ c.offered = <<[key |-> S_enter]>>
        /\ c.http = <<[sid |-> c.sid, body |-> [key |-> S_enter]]>>

\* C4 as stated: a fallback request answered with HTTP 400 sets the status of the
\* session it was sent for to exited and requests exactly one UI refresh.
C4_Original ==
    ev.op = "fetchSettles" /\ ev.resp = 400 =>
        status[ev.sid] = "exited" /\ ev.refresh = 1

\* C4 amended: handling an HTTP 400 answer sets the status of the session the
\* manager holds at that moment to exited and requests exactly one UI refresh if
\* callbacks are still set; when no session is held any more (teardown while the
\* request was in flight) it changes no status and requests no refresh.
C4_RejectionMarksHeldSession ==
    [][ev'.op = "fetchSettles" /\ ev'.resp = 400 =>
          IF session' # NoSession
          THEN /\ status' = [status EXCEPT ![session'] = "exited"]
               /\ ev'.refresh = IF callbacks' THEN 1 ELSE 0
          ELSE status' = status /\ ev'.refresh = 0]_vars

C4_Witness ==
    /\ ev.op = "fetchSettles" /\ ev.resp = 400 /\ ev.refresh = 1
    /\ session = ev.sid /\ status[session] = "exited"

\* C5: a session's status changes only in the step that handles an HTTP 400
\* answer of a fallback request, it changes to exited, and no step moves a
\* status away from exited.
C5_ExitedOnlyByRejection ==
    [][/\ status' # status =>
            /\ ev'.op = "fetchSettles" /\ ev'.resp = 400
            /\ \E s \in Sessions : status' = [status EXCEPT ![s] = "exited"]
       /\ \A s \in Sessions : status[s] = "exited" => status'[s] = "exited"]_vars

C5_Witness ==
    /\ session # NoSession /\ status[session] = "exited"
    /\ ev.op = "sendInput"

\* C6: a fallback request that fails otherwise than with HTTP 400 (another
\* non-2xx status, or a network error) is dropped: no request is issued in its
\* place, no status changes and no UI refresh is requested.
C6_TransientFailureDropped ==
    [][(ev'.op = "fetchSettles" /\ ev'.resp # 400 /\ ~ResponseOk(ev'.resp)) =>
          /\ status' = status
          /\ ev'.refresh = 0
          /\ ev'.calls = <<>>
          /\ InflightCount' = InflightCount - 1]_vars

C6_Witness ==
    /\ ev.op = "fetchSettles" /\ ev.resp = 500
    /\ session = ev.sid /\ callbacks /\ status[session] = "active"

\* C7: whatever the persistent channel does (accepts, rejects, throws) and
\* however the fallback request ends (2xx, 400, another status, network error),
\* the promise of the send call resolves; it never rejects.
C7_PromiseNeverRejects ==
    \A i \in 1..Len(ev.settled) : ev.settled[i] = "resolved"

C7_Witness ==
    /\ \E c \in Calls : c.ws = "threw"
    /\ ev.settled = <<"resolved">>

\* C8: within a composition (compositionstart, compositionupdate and input
\* events, compositionend) nothing is delivered before the end; compositionend
\* with data Y delivers exactly Text(Y) when Y is non-empty and nothing when Y is
\* empty, and leaves the buffer empty and composing false.
C8_CompositionDeliversFinalText ==
    [][/\ ev'.op = "compositionstart" => ev'.emit = <<>> /\ ev'.calls = <<>>
       /\ isComposing /\ ev'.op \in {"compositionupdate", "input"} =>
              ev'.emit = <<>> /\ ev'.calls = <<>>
       /\ ev'.op = "compositionend" =>
              /\ ev'.emit = IF ev'.arg # EmptyStr
                            THEN <<[cb |-> "onTextInput", arg |-> ev'.arg,
                                    input |-> [text |-> ev'.arg]]>>
                            ELSE <<>>
              /\ Len(ev'.calls) = Len(ev'.emit)
              /\ \A i \in 1..Len(ev'.calls) : ev'.calls[i].input = [text |-> ev'.arg]
              /\ value' = EmptyStr
              /\ ~isComposing']_vars

C8_Witness ==
    /\ ev.op = "compositionend" /\ ev.arg = S_enter
    /\ Len(ev.emit) = 1 /\ ev.emit[1].input = [text |-> S_enter]
    /\ value = EmptyStr /\ ~isComposing

\* C9: while the proxy is composing, a keydown delivers nothing: the proxy's
\* keydown handler invokes no callback, and handleKeyboardInput sends nothing,
\* raises no capture-toggle notification and leaves lastEscapeTime unchanged.
C9_NoKeydownWhileComposing ==
    [][imeInput /\ isComposing /\ ev'.op \in {"keydown", "handleKeyboardInput"} =>
          /\ ev'.emit = <<>>
          /\ ev'.calls = <<>>
          /\ ev'.toggles = <<>>
          /\ lastEscapeTime' = lastEscapeTime
          /\ inflight' = inflight]_vars

C9_Witness ==
    /\ imeInput /\ isComposing /\ ev.op = "handleKeyboardInput"
    /\ session # NoSession /\ status[session] = "active"

\* C10 as stated: every paste event the proxy receives emits exactly one Text
\* with the clipboard content and suppresses the default paste handling exactly
\* once, for every clipboard content.
C10_Original ==
    ev.op = "paste" /\ ev.target = "proxy" =>
        /\ ev.emit = <<[cb |-> "onTextInput", arg |-> ev.arg, input |-> [text |-> ev.arg]]>>
        /\ ev.prevented = 1

\* C10 amended: a paste event the proxy receives with non-empty clipboard text
\* emits exactly one Text with that text and suppresses the default paste
\* handling exactly once, composing or not; with empty clipboard text it emits
\* nothing and suppresses nothing; the proxy's and the document-level paste
\* handlers together never deliver one paste event twice.
C10_PasteDeliversOnce ==
    ev.op = "paste" =>
        /\ Len(ev.emit) <= 1
        /\ Len(ev.calls) = Len(ev.emit)
        /\ ev.target = "proxy" =>
              IF ev.arg # EmptyStr
              THEN /\ ev.emit = <<[cb |-> "onTextInput", arg |-> ev.arg,
                                   input |-> [text |-> ev.arg]]>>
                   /\ ev.calls[1].input = [text |-> ev.arg]
                   /\ ev.prevented = 1
              ELSE ev.emit = <<>> /\ ev.prevented = 0

C10_Witness ==
    /\ ev.op = "paste" /\ ev.target = "proxy" /\ isComposing
    /\ ev.arg = S_enter /\ Len(ev.emit) = 1 /\ ev.prevented = 1

\* an unmodified Escape press that got past the early returns of handleKeyboardInput
EscapeHandled(o) ==
    /\ o.op = "handleKeyboardInput"
    /\ o.key.key = K_Escape /\ Unmodified(o.key)
    /\ o.since >= 0

EscapeCalls(o) == {i \in 1..Len(o.calls) : o.calls[i].input = [key |-> S_escape]}

\* C11 as stated: two unmodified Escape presses handled less than 500 ms apart
\* yield, together, exactly one capture-toggle notification and no escape
\* delivery.
C11_Original ==
    [][(EscapeHandled(ev) /\ EscapeHandled(ev') /\ ev'.since < DOUBLE_ESCAPE_THRESHOLD) =>
          /\ Len(ev.toggles) + Len(ev'.toggles) = 1
          /\ EscapeCalls(ev) = {} /\ EscapeCalls(ev') = {}]_vars

\* C11 amended: an unmodified Escape press handled less than 500 ms after a
\* recorded one is not delivered and raises exactly one capture-toggle
\* notification, carrying the negation of the current capture state, when
\* callbacks are set (none when they are not); the recorded press it follows was
\* itself delivered as one escape key and raised no notification.
C11_DoubleEscapeToggles ==
    [][/\ (EscapeHandled(ev') /\ ev'.since < DOUBLE_ESCAPE_THRESHOLD) =>
            /\ ev'.calls = <<>> /\ inflight' = inflight
            /\ ev'.toggles = IF callbacks THEN <<[active |-> ~ev'.capture[1]]>> ELSE <<>>
            /\ Len(ev'.capture) = Len(ev'.toggles)
       /\ (lastEscapeTime' # lastEscapeTime /\ lastEscapeTime' # 0) =>
            /\ EscapeHandled(ev') /\ lastEscapeTime' = now
            /\ ev'.toggles = <<>>
            /\ Len(ev'.calls) = 1 /\ EscapeCalls(ev') = {1}]_vars

C11_Witness ==
    /\ EscapeHandled(ev) /\ ev.since = ShortStep
    /\ ev.capture = <<TRUE>> /\ ev.toggles = <<[active |-> FALSE]>>
    /\ ev.calls = <<>>

\* C12 as stated: after a double Escape the timer is reset and the next Escape
\* press, whenever it comes, raises no notification, is forwarded as exactly one
\* escape key and records a new timestamp; a run of N rapid Escape presses raises
\* floor(N/2) notifications.
C12_Original ==
    ev.run.n \in 1..MaxRun => ev.run.notes = ev.run.n \div 2

\* the timer part of C12: a detected double Escape resets the timer, and an
\* Escape press handled with the timer reset is forwarded once, raises no
\* notification and records the time
ThirdEscapeIsFresh ==
    /\ (EscapeHandled(ev') /\ ev'.since < DOUBLE_ESCAPE_THRESHOLD) => lastEscapeTime' = 0
    /\ (EscapeHandled(ev') /\ lastEscapeTime = 0) =>
          /\ ev'.toggles = <<>>
          /\ Len(ev'.calls) = 1 /\ EscapeCalls(ev') = {1}
          /\ lastEscapeTime' = now' /\ lastEscapeTime' # 0

\* C12 amended: the timer part as stated; a run of N rapid Escape presses
\* raises floor(N/2) notifications when callbacks are set and none when they are
\* not.
C12_TripleEscapeDoesNotRetrigger ==
    /\ [](ev.run.n \in 1..MaxRun =>
            ev.run.notes = IF callbacks THEN ev.run.n \div 2 ELSE 0)
    /\ [][ThirdEscapeIsFresh]_vars

C12_Witness ==
    /\ ev.run = [n |-> 3, notes |-> 1, at |-> StartTime + ShortStep]
    /\ EscapeHandled(ev) /\ ev.toggles = <<>> /\ EscapeCalls(ev) = {1}
    /\ lastEscapeTime = now

\* a keydown with Ctrl and a letter a..z, no other modifier, handed to
\* handleKeyboardInput while a session is set and not exited and the proxy is
\* not composing (the handler changes none of these)
CtrlLetterHandled ==
    /\ ev.op = "handleKeyboardInput"
    /\ ev.key \in CtrlLetterEvents
    /\ session # NoSession /\ status[session] = "active"
    /\ ~(imeInput /\ isComposing)

\* C13 as stated: Ctrl with a letter a..z, no other modifier, not composing,
\* session not exited, yields exactly one delivery Text(chr(n)), n the letter's
\* 1-based alphabet index.
C13_Original ==
    CtrlLetterHandled =>
        /\ Len(ev.calls) = 1
        /\ ev.calls[1].input = [text |-> <<ev.key.key[1] - 96>>]

\* C13 amended: such a keydown that is not a recognized copy/paste combination
\* and that the focused proxy does not filter out yields exactly one delivery
\* Text(chr(n)), a text payload and neither a key token nor the letter; a
\* recognized copy/paste combination is delivered nowhere.
C13_CtrlLetterIsControlCode ==
    CtrlLetterHandled =>
        IF isCopyPasteShortcut(ev.key) \/ ~ev.allowed
        THEN ev.calls = <<>>
        ELSE /\ Len(ev.calls) = 1
             /\ ev.calls[1].input = [text |-> <<ev.key.key[1] - 96>>]
             /\ ev.calls[1].input # [text |-> ev.key.key]
             /\ ev.calls[1].input # [key |-> ev.key.key]

C13_Witness ==
    /\ CtrlLetterHandled /\ ev.key.key = <<122>>
    /\ Len(ev.calls) = 1 /\ ev.calls[1].input = [text |-> <<26>>]
    /\ ev.calls[1].ws = "accepted"

\* C14: every payload handed to a transport has exactly one of the fields text
\* and key; a key field holds a member of the specialKeys list; the payload
\* sendInput builds for s is {key: s} exactly when s is in that list and
\* {text: s} otherwise.
C14_PayloadExclusive ==
    \A c \in Calls :
        /\ UsedTransport(c) =>
              /\ DOMAIN c.input \in {{"text"}, {"key"}}
              /\ DOMAIN c.input = {"key"} => c.input.key \in specialKeys
              /\ \A i \in 1..Len(c.offered) : c.offered[i] = c.input
              /\ \A i \in 1..Len(c.http) : c.http[i].body = c.input
        /\ ev.op = "sendInput" =>
              c.input = IF ev.arg \in specialKeys THEN [key |-> ev.arg]
                        ELSE [text |-> ev.arg]

C14_Witness ==
    /\ ev.op = "sendInput" /\ ev.arg = S_enter
    /\ \E c \in Calls : c.input = [key |-> S_enter] /\ Len(c.http) = 1

\* C15: at most one proxy is alive at any time: no step constructs a proxy
\* while one constructed earlier has not been cleaned up, whatever the order of
\* setSession, the setup retry timers, retryIMESetup, enableIMEInput, the
\* document's compositionstart listener and cleanup.
C15_AtMostOneProxy ==
    /\ [](liveProxies <= 1 /\ (imeInput <=> liveProxies = 1))
    /\ [][ev'.setup = "created" =>
            ~imeInput /\ liveProxies = 0 /\ liveProxies' = 1]_vars

C15_Witness ==
    /\ ev.op = "setupTimer" /\ ev.setup = "exists"
    /\ imeInput /\ liveProxies = 1 /\ PendingSetupTimers = 1

\* C16: whenever the manager holds no session it holds no proxy, also when a
\* setup retry timer fires after setSession(null) or cleanup.
C16_NoProxyWithoutSession ==
    session = NoSession => ~imeInput

\* C17 as stated: the answer to a fallback request that was in flight when the
\* session was torn down (cleanup, or setSession(null) with a proxy) changes no
\* session's status and requests no UI refresh, whatever the answer.
C17_Original ==
    [][(ev'.op = "fetchSettles" /\ ev'.wasTorn) =>
          status' = status /\ ev'.refresh = 0]_vars

\* C17 amended: such an answer is a no-op when the manager still holds no
\* session as it is handled; when a session has been set again by then, an HTTP
\* 400 answer marks that session exited (requesting one UI refresh if callbacks
\* are set) and any other answer changes nothing.
C17_TornDownCompletionIsNoOp ==
    [][(ev'.op = "fetchSettles" /\ ev'.wasTorn) =>
          IF session = NoSession \/ ev'.resp # 400
          THEN status' = status /\ ev'.refresh = 0
          ELSE /\ status' = [status EXCEPT ![session] = "exited"]
               /\ ev'.refresh = IF callbacks THEN 1 ELSE 0]_vars

C17_Witness ==
    /\ ev.op = "fetchSettles" /\ ev.wasTorn /\ ev.resp = 400
    /\ session = NoSession /\ status["s1"] = "active" /\ ev.refresh = 0

\* the steps that take new input: the document-level keydown handler and the
\* proxy's keydown, composition end, plain input and paste handlers
InputOps == {"handleKeyboardInput", "keydown", "compositionend", "input", "paste"}

\* a send call that was started in full: the persistent channel was tried when
\* the flag is on, and one fallback request was issued unless it accepted
OwnSend(c, flag) ==
    /\ flag <=> c.ws # "notOffered"
    /\ Len(c.http) = (IF c.ws = "accepted" THEN 0 ELSE 1)

\* C18: a fallback request in flight never blocks later input. With earlier
\* requests in flight, a keydown, composition end, plain input or paste that
\* resolves to input for the held session is handled in that step and starts
\* its own send (channel attempt, then fallback unless accepted), on top of the
\* requests in flight; and the focused proxy takes plain input at any such time.
C18_InFlightNeverBlocksInput ==
    /\ [](InflightCount \in 1..(MaxInflight - 1) /\ imeInput /\ focused /\ ~isComposing
            => ENABLED handleInput(S_x, "rejected", FALSE))
    /\ [][(InflightCount > 0 /\ session # NoSession /\ ev'.op \in InputOps
            /\ (ev'.emit # <<>> \/ (ev'.op = "handleKeyboardInput" /\ ev'.arg # NoEv.arg)))
           => /\ ev'.calls # <<>>
              /\ \A i \in 1..Len(ev'.calls) :
                    /\ ev'.calls[i].sid = session
                    /\ OwnSend(ev'.calls[i], useWebSocketInput)
              /\ \A sid \in DOMAIN inflight : inflight'[sid] >= inflight[sid]]_vars

C18_Witness ==
    /\ ev.op \in {"keydown", "compositionend", "input", "paste"}
    /\ Len(ev.calls) = 1 /\ Len(ev.calls[1].http) = 1
    /\ InflightCount = 2

\* C19: when the caller awaits the promise of each send before issuing the next,
\* the transports take the inputs in the order they were issued: the channel
\* has accepted a call's input, or its fallback request has been answered,
\* before any later call's input, whichever transport either call uses.
C19_AwaitedSendsInOrder ==
    ev.seq.awaited =>
        \A i, j \in 1..Len(ev.seq.done) :
            i < j => ev.seq.done[i].call < ev.seq.done[j].call

C19_Witness ==
    /\ ev.seq.awaited
    /\ Len(ev.seq.done) = 3
    /\ ev.seq.done[1].via # ev.seq.done[2].via
    /\ ev.seq.done[2].via # ev.seq.done[3].via

\* C20: while a composition is in progress the proxy is Visible: composition
\* start shows it from any prior state, and no timer callback hides it before
\* the composition ends.
C20_VisibleWhileComposing ==
    imeInput /\ isComposing => visible = Shown

\* C21: focus shows the proxy; the proxy goes from Visible to Hidden only in the
\* callback of a 50 ms blur timer, and only if it is then unfocused and not
\* composing; a blur timer that finds the proxy focused again leaves it Visible
\* and leaves the input-focused attribute set.
C21_FocusBlurGrace ==
    [][/\ ev'.op = "focus" => visible' = Shown /\ focusedAttr'
       /\ (imeInput' /\ visible = Shown /\ visible' = Hidden) =>
             ev'.op = "blurTimer" /\ ~focused /\ ~isComposing
       /\ (ev'.op = "blurTimer" /\ focused) =>
             visible' = visible /\ focusedAttr' = focusedAttr]_vars

\* C22: at most one delayed reposition timer is outstanding in any reachable
\* state, however many sends completed within the last 50 ms.
C22_OneRepositionTimer ==
    reposTimers <= 1

\* sends of the step that completed successfully: accepted by the persistent
\* channel, or answered 2xx
Succeeded(o) ==
    IF o.op = "fetchSettles" THEN (IF o.resp # NetworkError /\ ResponseOk(o.resp) THEN 1 ELSE 0)
    ELSE Cardinality({i \in 1..Len(o.calls) : o.calls[i].ws = "accepted"})

\* C23: a send triggers repositioning only when it completed successfully with
\* the proxy focused, and then one immediate reposition and one 50 ms timer for
\* the delayed one; a send that was dropped, rejected or made with no session
\* triggers none.
C23_RepositionOnSuccessOnly ==
    [][ev'.op \in {"sendInput", "sendInputText", "sendControlSequence", "fetchSettles"} =>
          /\ ev'.repos = (IF imeInput /\ focused THEN Succeeded(ev') ELSE 0)
          /\ reposTimers' = reposTimers + ev'.repos]_vars

\* the retry timers after the one for call n has fired
OneFired(n) == [setupTimers EXCEPT ![n] = @ - 1]

C25_RefreshOnlyOnExit ==
    [][ev'.refresh > 0 =>
          \E sid \in Sessions : status[sid] # "exited" /\ status'[sid] = "exited"]_vars

\* C26: every 400-class answer (400..499) to a fallback request is a definitive
\* rejection: it sets the held session's status to exited and requests a UI
\* refresh exactly once.
C26_Any4xxIsDefinitive ==
    [][(ev'.op = "fetchSettles" /\ ev'.resp \in 400..499 /\ session # NoSession /\ callbacks) =>
          status'[session] = "exited" /\ ev'.refresh = 1]_vars

\* C27: the composing attribute mirrors the live proxy's composition state: it
\* is set exactly when a proxy exists and is composing, a composition start is
\* the only step that sets it, and a composition end or a cleanup of the proxy
\* the only steps that clear it.
C27_ComposingFlagMirrors ==
    /\ [](composingAttr <=> (imeInput /\ isComposing))
    /\ [][/\ (~composingAttr /\ composingAttr') => ev'.op = "compositionstart"
          /\ (composingAttr /\ ~composingAttr') =>
                \/ ev'.op = "compositionend"
                \/ ev'.op \in {"cleanup", "setSession"} /\ imeInput /\ ~imeInput']_vars

C27_Witness ==
    ev.op = "compositionstart" /\ composingAttr /\ imeInput /\ isComposing

\* C28: a plain input event on the proxy with a non-empty buffer hands the buffer
\* content to onTextInput once, which makes one send call with it as a text
\* payload, and leaves the buffer empty; an input event while composing emits
\* nothing, sends nothing and leaves the buffer as the browser set it.
C28_PlainInputEmitsText ==
    [][ev'.op = "input" =>
          IF isComposing
          THEN ev'.emit = <<>> /\ ev'.calls = <<>> /\ value' = ev'.arg
          ELSE IF ev'.arg # EmptyStr
          THEN /\ ev'.emit = <<[cb |-> "onTextInput", arg |-> ev'.arg,
                                input |-> [text |-> ev'.arg]]>>
               /\ Len(ev'.calls) = 1
               /\ ev'.calls[1].input = [text |-> ev'.arg]
               /\ value' = EmptyStr
          ELSE ev'.emit = <<>> /\ ev'.calls = <<>>]_vars

C28_Witness ==
    /\ ev.op = "input" /\ ev.arg = S_enter /\ value = EmptyStr
    /\ Len(ev.calls) = 1 /\ ev.calls[1].input = [text |-> S_enter]
    /\ UsedTransport(ev.calls[1])

\* the keydown the step handled got as far as the key mapper: a session was
\* held and not exited, and the proxy did not block the event
ReachedMapper ==
    /\ ev'.op = "handleKeyboardInput"
    /\ session # NoSession
    /\ status[session] # "exited"
    /\ ~BlockedByIME(ev'.key, ev'.allowed)
    /\ ~isCopyPasteShortcut(ev'.key)

\* the step made one send call with this payload
SentOnce(payload) ==
    Len(ev'.calls) = 1 /\ ev'.calls[1].input = payload

\* C29: Enter with Ctrl maps to ctrl_enter, also when Shift is held too; Enter
\* with Shift and no Ctrl to shift_enter; Enter otherwise to enter; Tab with
\* Shift to shift_tab and without to tab; each is sent as a key payload, and
\* Ctrl+Enter is never sent as a control-code text.
C29_EnterTabRules ==
    [][(ReachedMapper /\ ev'.key.key \in {K_Enter, K_Tab}) =>
          LET e == ev'.key
              token == IF e.key = K_Enter
                       THEN (IF e.ctrlKey THEN S_ctrl_enter
                             ELSE IF e.shiftKey THEN S_shift_enter ELSE S_enter)
                       ELSE (IF e.shiftKey THEN S_shift_tab ELSE S_tab)
          IN ev'.arg = token /\ SentOnce([key |-> token])]_vars

C29_Witness ==
    /\ ev.op = "handleKeyboardInput"
    /\ ev.key = KeyEvent(K_Enter, TRUE, FALSE, FALSE, TRUE)
    /\ Len(ev.calls) = 1 /\ ev.calls[1].input = [key |-> S_ctrl_enter]
    /\ UsedTransport(ev.calls[1])

\* C30: with Alt held and no other modifier, ArrowLeft, ArrowRight and Backspace
\* are sent as one text payload each (ESC b, ESC f, 0x17) and no key token;
\* with any further modifier the Alt rule does not apply and the key gets the
\* token of the later rules.
C30_AltWordSequences ==
    [][(ReachedMapper /\ ev'.key.altKey
          /\ ev'.key.key \in {K_ArrowLeft, K_ArrowRight, K_Backspace}) =>
          LET e == ev'.key
              alone == ~e.ctrlKey /\ ~e.metaKey /\ ~e.shiftKey
              sequence == IF e.key = K_ArrowLeft THEN <<27, 98>>
                          ELSE IF e.key = K_ArrowRight THEN <<27, 102>> ELSE <<23>>
              token == IF e.key = K_ArrowLeft THEN S_arrow_left
                       ELSE IF e.key = K_ArrowRight THEN S_arrow_right ELSE S_backspace
          IN IF alone THEN SentOnce([text |-> sequence])
             ELSE SentOnce([key |-> token])]_vars

C30_Witness ==
    /\ ev.op = "handleKeyboardInput"
    /\ ev.key = KeyEvent(K_Backspace, FALSE, TRUE, FALSE, FALSE)
    /\ Len(ev.calls) = 1 /\ ev.calls[1].input = [text |-> <<23>>]
    /\ UsedTransport(ev.calls[1])

\* C31: a keydown with a multi-character key name that the switch does not
\* list is ignored whatever modifiers are held: nothing is offered to the
\* persistent channel, no fallback request is issued, no reposition is made, and
\* the Escape timestamp, the session and its status are unchanged.
C31_UnknownKeyIgnored ==
    [][(ev'.op = "handleKeyboardInput" /\ ev'.key.key = K_F5) =>
          /\ ev'.calls = <<>> /\ ev'.toggles = <<>> /\ ev'.repos = 0
          /\ UNCHANGED <<inflight, lastEscapeTime, session, status>>]_vars

C31_Witness ==
    /\ ev.op = "handleKeyboardInput"
    /\ ev.key = KeyEvent(K_F5, TRUE, FALSE, FALSE, TRUE)
    /\ session # NoSession /\ status[session] = "active"
    /\ ~BlockedByIME(ev.key, ev.allowed)
    /\ ev.calls = <<>>

\* C32: a 400 answer to a fallback request marks only the session the request
\* was sent for: the status of every other session is unchanged and, when
\* another session is held by then, no UI refresh is requested.
C32_RejectionMarksOwnSession ==
    [][(ev'.op = "fetchSettles" /\ ev'.resp = 400) =>
          /\ \A sid \in Sessions \ {ev'.sid} : status'[sid] = status[sid]
          /\ session # ev'.sid => ev'.refresh = 0]_vars

\* C33: over the life of a session the UI refresh for its exited transition is
\* requested at most once, also when several fallback requests in flight are
\* each answered with a definitive rejection, or a send made after the session
\* has exited is rejected.
C33_RefreshAtMostOnce ==
    ev.seq.refreshes <= 1

\* C34: whenever the existing proxy has focus the input-focused body attribute
\* is set; no pending timer clears it while the proxy is focused, the blur
\* timer of an earlier, cleaned-up proxy included.
C34_FocusedProxySetsFlag ==
    imeInput /\ focused => focusedAttr

\* C35: one keydown event produces at most one delivery in total; when the
\* focused proxy's keydown handler and handleKeyboardInput both see it and the
\* IME-allowed-key filter lets it through, it is not sent twice.
C35_OneKeydownOneDelivery ==
    ev.op = "keydownEvent" =>
        Cardinality({i \in 1..Len(ev.calls) : UsedTransport(ev.calls[i])}) <= 1

\* C36: text from composition end, plain input or paste is always delivered as
\* a text payload, also when the string is the name of a special key; a key
\* payload only comes from a string routed through sendInput (the API call, the
\* key mapper, the proxy's onSpecialKey).
C36_TextSourcesSendText ==
    \A i \in 1..Len(ev.calls) :
        LET c == ev.calls[i]
        IN /\ ev.op \in {"compositionend", "input", "paste"} =>
                 c.input = [text |-> ev.emit[i].arg]
           /\ "key" \in DOMAIN c.input =>
                 /\ ev.op \in {"sendInput", "handleKeyboardInput", "keydown"}
                 /\ ev.op = "keydown" => ev.emit[i].cb = "onSpecialKey"

\* a pasted "enter" went out as text
C36_Witness ==
    /\ ev.op = "paste"
    /\ ev.arg = S_enter
    /\ Len(ev.calls) = 1
    /\ ev.calls[1].input = [text |-> S_enter]
    /\ UsedTransport(ev.calls[1])

\* the step ran the proxy's keydown listener alone, outside a composition
ProxyKeydown(k) ==
    ev'.op = "keydown" /\ ev'.key.key = k /\ ~isComposing

\* the step made exactly one send call, with this payload, and it used a transport
DeliveredOnce(payload) ==
    /\ SentOnce(payload)
    /\ UsedTransport(ev'.calls[1])

C38_FlagGatesChannel ==
    [][/\ ev'.op = "setSession" =>
             (ev'.conn = "called" <=> session' # NoSession /\ useWebSocketInput')
       /\ \A i \in 1..Len(ev'.calls) :
             LET c == ev'.calls[i]
             IN c.sid # NoSession =>
                  /\ ~useWebSocketInput => c.offered = <<>> /\ Len(c.http) = 1
                  /\ useWebSocketInput /\ c.ws = "rejected" => Len(c.http) = 1
       /\ ev'.op = "connectSettles" =>
             UNCHANGED <<session, status, useWebSocketInput, inflight>>
      ]_vars

\* after a failed connection a send was refused by the channel and fell back
C38_Witness ==
    /\ ev.seq.connFailed
    /\ ev.op = "sendInput"
    /\ useWebSocketInput
    /\ Len(ev.calls) = 1
    /\ ev.calls[1].ws = "rejected"
    /\ Len(ev.calls[1].http) = 1

\* C39: an NgrokService owns at most one live ngrok child process and every
\* live child is the tracked one, also after two start() calls made before the
\* first has resolved; isActive() is true exactly when getTunnel() is non-null;
\* start() while a tunnel is running returns the existing tunnel.
C39_OneTrackedChild ==
    /\ Cardinality(Live) <= 1
    /\ \A k \in Live : ngrok.ngrokProcess = k
    /\ isActive <=> getTunnel # NoChild
    /\ ngrok.last.op = "start" /\ isActive /\ getTunnel # NoChild =>
          ngrok.last.ret = "existing" /\ ngrok.last.child = getTunnel

\* once a stop() has resolved the service is inactive, holds no tunnel and
\* tracks no child process
C40_StoppedClean ==
    ngrok.last.resolves > 0 =>
        ~isActive /\ getTunnel = NoChild /\ ngrok.ngrokProcess = NoChild

\* stop() with no process changes nothing
C40_StopNoOp ==
    [][ngrok.ngrokProcess = NoChild /\ ngrok'.last.op = "stop" =>
          ngrok' = [ngrok EXCEPT !.last = ngrok'.last]]_vars

\* a start() that times out rejects once and leaves the service inactive
C40_TimeoutRejectsOnce ==
    ngrok.last.op = "startupTimeout" /\ ngrok.last.ret = "rejected" =>
        ngrok.settles[ngrok.last.child] = 1 /\ ~isActive

\* every stop() resolves
C40_StopResolves ==
    \A k \in Children : (ngrok.killTimeout[k] > 0) ~> (ngrok.killTimeout[k] = 0)

\* C40: stop() always resolves, on the close of the process or on the 5 s kill
\* timeout, and once it has resolved isActive() is false, getTunnel() and
\* getPublicUrl() are null and no child process is tracked; stop() with no
\* process is a no-op; a start() whose tunnel does not come up within the 30 s
\* startup timeout rejects exactly once and leaves the service inactive.
C40_StopResolvesClean ==
    /\ []C40_StoppedClean
    /\ C40_StopNoOp
    /\ []C40_TimeoutRejectsOnce
    /\ C40_StopResolves

====
